---- MODULE Spec2Model ----
(***************************************************************************)
(* A model of src/styles.rs of cushy: the Styles registry (a copy-on-write *)
(* map behind an Arc), the Component enum with its From / TryFrom          *)
(* conversions, RequireInvalidation, CustomComponent and DimensionRange.   *)
(*                                                                         *)
(* Encoding of Rust enums: a value of variant V with payload p is the      *)
(* one-field record (V :> p); the variant is the field's name.  A value of *)
(* the Rust type T is (T :> v), a Component is [Component |-> (V :> p)].   *)
(***************************************************************************)
EXTENDS Integers, Sequences, FiniteSets, TLC

VARIABLES
    arc,      \* Styles handle -> the Arc allocation it holds, 0 for no handle
    heap,     \* Arc allocation -> the AHashMap<ComponentName, Value<Component>> in it
    cells,    \* the current contents of the Dynamic<Component> cell
    op,       \* the last Styles operation: its arguments, return value, context calls
    tval,     \* Component conversions: the typed value converted from
    comp,     \* Component conversions: the Component at hand
    out,      \* Component conversions: the last request and its result
    range,    \* DimensionRange: how the range at hand was built, and the range
    rout,     \* DimensionRange: the last query and its result
    builder,  \* ColorSchemeBuilder: the builder at hand
    build,    \* ColorSchemeBuilder::build: its position, locals and result
    probe     \* colour functions: the last call, its arguments and its result

vars == <<arc, heap, cells, op, tval, comp, out, range, rout, builder, build, probe>>
stylesVars == <<arc, heap, cells, op>>
componentVars == <<tval, comp, out>>
rangeVars == <<range, rout>>
colorVars == <<builder, build, probe>>

(***************************************************************************)
(* Bounds of the model.                                                    *)
(***************************************************************************)
MaxDim == 1          \* Px and Lp values range over -MaxDim..MaxDim
MaxHandles == 2      \* Styles handles alive at once

(***************************************************************************)
(* Option and Result.                                                      *)
(***************************************************************************)
None == [None |-> TRUE]
Some(v) == [Some |-> v]
IsSome(o) == DOMAIN o = {"Some"}
Ok(v) == [Ok |-> v]
Err(e) == [Err |-> e]
IsOk(r) == DOMAIN r = {"Ok"}
IsErr(r) == DOMAIN r = {"Err"}

\* The variant (or type) name of a one-field record, and its payload.
Tag(x) == CHOOSE t \in DOMAIN x : TRUE
Payload(x) == x[Tag(x)]

(***************************************************************************)
(* The leaf types.                                                         *)
(***************************************************************************)
DimInts == (0 - MaxDim)..MaxDim
PxValues == {[Px |-> n] : n \in DimInts}
LpValues == {[Lp |-> n] : n \in DimInts}
\* enum Dimension { Px(Px), Lp(Lp) }
Dimension == PxValues \cup LpValues
DimensionZERO == [Px |-> 0]

\* std::ops::Bound<Dimension>
Unbounded == [Unbounded |-> TRUE]
Included(d) == [Included |-> d]
Excluded(d) == [Excluded |-> d]
Bounds == {Unbounded} \cup {Included(d) : d \in Dimension} \cup {Excluded(d) : d \in Dimension}
\* struct DimensionRange { start, end }
DimensionRange == [start : Bounds, end : Bounds]

\* kludgine::Color, as <<red, green, blue, alpha>>
Colors == {<<255, 0, 0, 255>>, <<0, 0, 255, 255>>, <<0, 0, 0, 0>>}
HorizontalOrder == {"LeftToRight", "RightToLeft"}
VerticalOrder == {"TopToBottom", "BottomToTop"}
VisualOrder == [horizontal : HorizontalOrder, vertical : VerticalOrder]
FocusableWidgets == {"All", "OnlyTextual"}
ContainerLevel == {"Lowest", "Low", "Mid", "High", "Highest"}
FamilyOwned == {"Serif", "SansSerif", "Name(Inter)"}
Weight == {400, 700}
Style == {"Normal", "Italic", "Oblique"}
ZeroToOne == {0, 50, 100}            \* hundredths
EasingFunction == {"EaseInOutSine", "Linear"}

\* kludgine::shapes::CornerRadii<Unit>
CornerRadiiOf(top_left, top_right, bottom_right, bottom_left) ==
    [top_left |-> top_left, top_right |-> top_right,
     bottom_right |-> bottom_right, bottom_left |-> bottom_left]
\* CornerRadii<Px> and CornerRadii<Lp> hold the unit's numbers.
CornerRadiiPx == {CornerRadiiOf(0, 0, 0, 0), CornerRadiiOf(1, 0, 0 - 1, 1)}
CornerRadiiLp == {CornerRadiiOf(1, 1, 1, 1), CornerRadiiOf(0, 1, 0, 0 - 1)}
CornerRadiiDimension ==
    {CornerRadiiOf([Px |-> 0], [Px |-> 0], [Px |-> 0], [Px |-> 0]),
     CornerRadiiOf([Px |-> 1], [Px |-> 0], [Px |-> 0 - 1], [Px |-> 1]),
     CornerRadiiOf([Lp |-> 0], [Lp |-> 1], [Lp |-> 0], [Lp |-> 0 - 1]),
     CornerRadiiOf([Px |-> 1], [Lp |-> 1], [Px |-> 0], [Lp |-> 0])}
\* struct FontFamilyList(Arc<Vec<FamilyOwned>>), by its contents
FontFamilyLists == {<<>>, <<"Serif">>, <<"Name(Inter)", "SansSerif">>}

(***************************************************************************)
(* CustomComponent(Arc<dyn AnyComponent>): the payload with the concrete   *)
(* type it was built from, (T :> payload).  UserRelayout and UserRedraw    *)
(* stand for caller-defined payload types: the first answers               *)
(* requires_invalidation from a field, the second always answers false.    *)
(***************************************************************************)
CustomPayloads ==
    {[CornerRadiiDimension |-> r] : r \in CornerRadiiDimension}
        \cup {[FontFamilyList |-> l] : l \in FontFamilyLists}
        \cup {[UserRelayout |-> b] : b \in BOOLEAN}
        \cup {[UserRedraw |-> n] : n \in {0, 1}}

\* CustomComponent::new(value)
CustomComponentNew(value) == value

\* enum Component
ComponentOf(variant, payload) == [Component |-> (variant :> payload)]
Variant(c) == Tag(c.Component)
Inner(c) == Payload(c.Component)
\* Component::custom(component)
ComponentCustom(value) == ComponentOf("Custom", CustomComponentNew(value))

Components ==
    {ComponentOf("Color", c) : c \in Colors}
        \cup {ComponentOf("Dimension", d) : d \in Dimension}
        \cup {ComponentOf("DimensionRange", r) : r \in DimensionRange}
        \cup {ComponentOf("Percent", p) : p \in ZeroToOne}
        \cup {ComponentOf("Easing", e) : e \in EasingFunction}
        \cup {ComponentOf("VisualOrder", o) : o \in VisualOrder}
        \cup {ComponentOf("FocusableWidgets", f) : f \in FocusableWidgets}
        \cup {ComponentOf("ContainerLevel", l) : l \in ContainerLevel}
        \cup {ComponentOf("FontFamily", f) : f \in FamilyOwned}
        \cup {ComponentOf("FontWeight", w) : w \in Weight}
        \cup {ComponentOf("FontStyle", s) : s \in Style}
        \cup {ComponentOf("Custom", p) : p \in CustomPayloads}

(***************************************************************************)
(* Typed values: (T :> v) is the value v of the Rust type T.               *)
(***************************************************************************)
TypedValues ==
    {[Color |-> c] : c \in Colors}
        \cup {[Dimension |-> d] : d \in Dimension}
        \cup {[Px |-> n] : n \in DimInts}
        \cup {[Lp |-> n] : n \in DimInts}
        \cup {[DimensionRange |-> r] : r \in DimensionRange}
        \cup {[VisualOrder |-> o] : o \in VisualOrder}
        \cup {[FocusableWidgets |-> f] : f \in FocusableWidgets}
        \cup {[ContainerLevel |-> l] : l \in ContainerLevel}
        \cup {[FamilyOwned |-> f] : f \in FamilyOwned}
        \cup {[Weight |-> w] : w \in Weight}
        \cup {[Style |-> s] : s \in Style}
        \cup {[CornerRadiiPx |-> r] : r \in CornerRadiiPx}
        \cup {[CornerRadiiLp |-> r] : r \in CornerRadiiLp}
        \cup {[CornerRadiiDimension |-> r] : r \in CornerRadiiDimension}
        \cup {[FontFamilyList |-> l] : l \in FontFamilyLists}
        \cup {[CustomComponent |-> p] : p \in CustomPayloads}

\* The types T with an impl of ComponentType (TryFrom<Component>) in this file.
ComponentTypes ==
    {"Color", "Dimension", "Px", "Lp", "DimensionRange", "VisualOrder",
     "FocusableWidgets", "ContainerLevel", "FamilyOwned", "Weight", "Style",
     "CornerRadiiDimension", "FontFamilyList", "CustomComponent"}

\* The concrete types a CustomComponent can be asked to downcast to.
DowncastTypes ==
    {"CornerRadiiDimension", "CornerRadiiPx", "FontFamilyList", "UserRelayout",
     "UserRedraw", "Dimension"}

\* impl From<Px> for Dimension
DimensionFromPx(px) == [Px |-> px]
\* impl From<Lp> for Dimension, and a copy of the Px impl in its place
DimensionFromLpAsPx(lp) == [Px |-> lp]
DimensionFromLp(lp) == [Lp |-> lp]
\* Dimension::from(unit) for Unit = Px, Lp or Dimension itself
DimensionFrom(T, unit) ==
    CASE T = "CornerRadiiPx" -> DimensionFromPx(unit)
      [] T = "CornerRadiiLp" -> DimensionFromLp(unit)
      [] T = "CornerRadiiDimension" -> unit

\* impl From<CornerRadii<Unit>> for Component: the four radii as Dimensions.
RadiiIntoDimension(T, radii) ==
    [top_left |-> DimensionFrom(T, radii.top_left),
     top_right |-> DimensionFrom(T, radii.top_right),
     bottom_right |-> DimensionFrom(T, radii.bottom_right),
     bottom_left |-> DimensionFrom(T, radii.bottom_left)]

(***************************************************************************)
(* impl From<T> for Component (ComponentType::into_component).             *)
(***************************************************************************)
IntoComponent(tv) ==
    LET T == Tag(tv)
        v == Payload(tv)
    IN  CASE T = "FamilyOwned" -> ComponentOf("FontFamily", v)
          [] T = "Weight" -> ComponentOf("FontWeight", v)
          [] T = "Style" -> ComponentOf("FontStyle", v)
          [] T = "Color" -> ComponentOf("Color", v)
          [] T = "Dimension" -> ComponentOf("Dimension", v)
          [] T = "Px" -> ComponentOf("Dimension", DimensionFromPx(v))
          [] T = "Lp" -> ComponentOf("Dimension", DimensionFromLp(v))
          [] T \in {"CornerRadiiPx", "CornerRadiiLp", "CornerRadiiDimension"} ->
                ComponentCustom([CornerRadiiDimension |-> RadiiIntoDimension(T, v)])
          [] T = "DimensionRange" -> ComponentOf("DimensionRange", v)
          [] T = "CustomComponent" -> ComponentOf("Custom", v)
          [] T = "VisualOrder" -> ComponentOf("VisualOrder", v)
          [] T = "FocusableWidgets" -> ComponentOf("FocusableWidgets", v)
          [] T = "ContainerLevel" -> ComponentOf("ContainerLevel", v)
          [] T = "FontFamilyList" -> ComponentCustom([FontFamilyList |-> v])

(***************************************************************************)
(* CustomComponent::downcast::<T>(): the payload as &dyn Any (as_any is    *)
(* dispatched on the payload, so the Any is the concrete value), then      *)
(* downcast_ref, which compares type ids.                                  *)
(***************************************************************************)
AsAnyOfArc(custom) == ("Arc<dyn AnyComponent>" :> custom)
AsAny(custom) == custom
DowncastRef(any, T) == IF Tag(any) = T THEN Some(any) ELSE None
Downcast(custom, T) == DowncastRef(AsAny(custom), T)

\* match value { Component::V(x) => Ok(x), other => Err(other) }
MatchVariant(value, variant, T) ==
    IF Variant(value) = variant THEN Ok(T :> Inner(value)) ELSE Err(value)

\* A match that forgets the Dimension sub-variant.
TryFromDimensionAnyUnit(value, unit) ==
    IF Variant(value) = "Dimension"
    THEN Ok(unit :> Payload(Inner(value)))
    ELSE Err(value)
\* match value { Component::Dimension(Dimension::Px(px)) => Ok(px), other => Err(other) }
TryFromDimensionUnit(value, unit) ==
    IF Variant(value) = "Dimension" /\ Tag(Inner(value)) = unit
    THEN Ok(unit :> Inner(value)[unit])
    ELSE Err(value)

\* A failed downcast that answers with an empty payload instead of the original.
TryFromCustomLossy(value, T) ==
    IF Variant(value) = "Custom"
    THEN LET custom == Inner(value)
             found == Downcast(custom, T)
         IN  IF IsSome(found)
             THEN Ok(found.Some)
             ELSE Err(ComponentOf("Custom", [UserRedraw |-> 0]))
    ELSE Err(value)
\* match value { Component::Custom(custom) =>
\*     custom.downcast().copied().ok_or_else(|| Component::Custom(custom)),
\*     other => Err(other) }
TryFromCustom(value, T) ==
    IF Variant(value) = "Custom"
    THEN LET custom == Inner(value)
             found == Downcast(custom, T)
         IN  IF IsSome(found)
             THEN Ok(found.Some)
             ELSE Err(ComponentOf("Custom", custom))
    ELSE Err(value)

(***************************************************************************)
(* impl TryFrom<Component> for T (ComponentType::try_from_component).      *)
(***************************************************************************)
TryFromComponent(T, value) ==
    CASE T = "FamilyOwned" -> MatchVariant(value, "FontFamily", T)
      [] T = "Weight" -> MatchVariant(value, "FontWeight", T)
      [] T = "Style" -> MatchVariant(value, "FontStyle", T)
      [] T = "Color" -> MatchVariant(value, "Color", T)
      [] T = "Dimension" -> MatchVariant(value, "Dimension", T)
      [] T = "Px" -> TryFromDimensionUnit(value, "Px")
      [] T = "Lp" -> TryFromDimensionUnit(value, "Lp")
      [] T = "CornerRadiiDimension" -> TryFromCustom(value, T)
      [] T = "DimensionRange" -> MatchVariant(value, "DimensionRange", T)
      [] T = "CustomComponent" -> MatchVariant(value, "Custom", T)
      [] T = "VisualOrder" -> MatchVariant(value, "VisualOrder", T)
      [] T = "FocusableWidgets" -> MatchVariant(value, "FocusableWidgets", T)
      [] T = "ContainerLevel" -> MatchVariant(value, "ContainerLevel", T)
      [] T = "FontFamilyList" -> TryFromCustom(value, T)

(***************************************************************************)
(* impl RequireInvalidation for T, for the types of this file and the two  *)
(* caller-defined payload types.                                           *)
(***************************************************************************)
TypeRequiresInvalidationAlways(tv) == TRUE
TypeRequiresInvalidation(tv) ==
    LET T == Tag(tv)
    IN  CASE T \in {"FamilyOwned", "Weight", "Style"} -> TRUE
          [] T = "Color" -> FALSE
          [] T \in {"Dimension", "Px", "Lp"} -> TRUE
          [] T \in {"CornerRadiiPx", "CornerRadiiLp", "CornerRadiiDimension"} -> TRUE
          [] T = "DimensionRange" -> TRUE
          [] T = "VisualOrder" -> TRUE
          [] T = "FocusableWidgets" -> FALSE
          [] T = "ContainerLevel" -> TRUE
          [] T = "FontFamilyList" -> TRUE
          [] T = "UserRelayout" -> Payload(tv)
          [] T = "UserRedraw" -> FALSE

\* impl RequireInvalidation for CustomComponent: self.0.requires_invalidation()
CustomRequiresInvalidationAlways(custom) == TRUE
CustomRequiresInvalidation(custom) == TypeRequiresInvalidation(custom)

\* value.requires_invalidation() for a value of any ComponentType
RequiresInvalidation(tv) ==
    IF Tag(tv) = "CustomComponent"
    THEN CustomRequiresInvalidation(Payload(tv))
    ELSE TypeRequiresInvalidation(tv)

\* #[derive(Clone)] of CustomComponent: another Arc to the same payload.
CustomComponentClone(custom) == custom

(***************************************************************************)
(* Styles(Arc<AHashMap<ComponentName, Value<Component>>>).                 *)
(*                                                                         *)
(* A handle is a Styles value; arc[h] is the allocation its Arc points to  *)
(* and heap[a] the map in allocation a, a function from ComponentName to   *)
(* None or Some(Value<Component>).  The strong count of an allocation is   *)
(* the number of handles that point to it.                                 *)
(***************************************************************************)
Handles == 1..MaxHandles
Allocs == 1..MaxHandles

\* struct ComponentName { group, name }
ComponentNames ==
    {[group |-> "button", name |-> "color"], [group |-> "label", name |-> "color"]}

\* enum Value<T> { Constant(T), Dynamic(Dynamic<T>) }
Constant(c) == [Constant |-> c]
Dynamic(cell) == [Dynamic |-> cell]

\* The contents the Dynamic<Component> cell "accent" can be set to.
CellValues ==
    {ComponentOf("Color", <<0, 0, 255, 255>>), ComponentOf("Dimension", [Px |-> 0])}

\* Value::get: the value's current contents
ValueGet(value, cell) == IF Tag(value) = "Constant" THEN value.Constant ELSE cell

EmptyMap == [n \in ComponentNames |-> None]
Keys(map) == {n \in ComponentNames : map[n] # None}

\* The arguments of insert and insert_named: an impl IntoComponentValue.
InsertArgs ==
    {[Into |-> [Color |-> <<255, 0, 0, 255>>]], [Into |-> [Px |-> 1]],
     [Into |-> [FocusableWidgets |-> "All"]], [Dynamic |-> "accent"]}
\* The two of them the handles of SpecStyles write.
SharedArgs == {[Into |-> [Color |-> <<255, 0, 0, 255>>]], [Dynamic |-> "accent"]}

\* IntoComponentValue::into_component_value, for T: Into<Component> and for
\* Dynamic<T>, whose mapped cell follows the source cell.
IntoComponentValue(x) ==
    IF Tag(x) = "Into" THEN Constant(IntoComponent(x.Into)) ELSE Dynamic(x.Dynamic)

\* The typed properties callers define: impl ComponentDefinition.
Definitions == [name : ComponentNames, T : {"Color", "Px", "FocusableWidgets"}]
Contexts == {"light", "dark"}
\* NamedComponent::name
NameOf(definition) == definition.name
\* ComponentDefinition::default_value(context)
DefaultValue(definition, context) ==
    CASE definition.T = "Color" ->
            IF context = "dark" THEN [Color |-> <<0, 0, 0, 0>>]
            ELSE [Color |-> <<0, 0, 255, 255>>]
      [] definition.T = "FocusableWidgets" ->
            IF context = "dark" THEN [FocusableWidgets |-> "OnlyTextual"]
            ELSE [FocusableWidgets |-> "All"]
      [] definition.T = "Px" -> IF context = "dark" THEN [Px |-> 0] ELSE [Px |-> 0 - 1]

\* The values with() accepts for a definition: an IntoValue<C::ComponentType>.
WithArgs(definition) ==
    {tv \in {x.Into : x \in {y \in InsertArgs : Tag(y) = "Into"}} : Tag(tv) = definition.T}

\* Styles::get_named on the map of a handle
StylesGetNamed(map, name) == map[name]

\* The registry as a value: [arc |-> ..., heap |-> ...]
RefCount(st, a) == Cardinality({h \in DOMAIN st.arc : st.arc[h] = a})
FreshArc(st) ==
    CHOOSE a \in Allocs :
        /\ RefCount(st, a) = 0
        /\ \A b \in Allocs : RefCount(st, b) = 0 => a <= b
View(h) == heap[arc[h]]

\* Arc::new(map), held by handle h
ArcNew(st, h, map) ==
    LET a == FreshArc(st)
    IN  [arc |-> [st.arc EXCEPT ![h] = a], heap |-> [st.heap EXCEPT ![a] = map]]

\* Dropping handle h's Arc: the map is freed with the last count.
ArcDrop(st, h) ==
    LET a == st.arc[h]
    IN  [arc |-> [st.arc EXCEPT ![h] = 0],
         heap |-> IF RefCount(st, a) = 1 THEN [st.heap EXCEPT ![a] = EmptyMap] ELSE st.heap]

\* Arc::make_mut(&mut self.0) that never copies.
ArcMakeMutInPlace(st, h) == st
\* Arc::make_mut(&mut self.0): the map itself when h holds the only count,
\* otherwise a copy of it in a new allocation that h is moved to.
ArcMakeMut(st, h) ==
    IF RefCount(st, st.arc[h]) = 1
    THEN st
    ELSE ArcNew(st, h, st.heap[st.arc[h]])

\* An insert that keeps the entry already there (entry().or_insert()).
StylesInsertNamedKeep(st, h, name, value) ==
    LET m == ArcMakeMut(st, h)
        a == m.arc[h]
    IN  [arc |-> m.arc,
         heap |-> IF m.heap[a][name] = None
                  THEN [m.heap EXCEPT ![a][name] = Some(value)]
                  ELSE m.heap]
\* Styles::insert_named
StylesInsertNamed(st, h, name, value) ==
    LET m == ArcMakeMut(st, h)
    IN  [arc |-> m.arc, heap |-> [m.heap EXCEPT ![m.arc[h]][name] = Some(value)]]

\* for (name, value) in entries { self.insert_named(name, value) }
RECURSIVE InsertEach(_, _, _)
InsertEach(st, h, entries) ==
    IF entries = <<>>
    THEN st
    ELSE InsertEach(StylesInsertNamed(st, h, Head(entries).name, Head(entries).value),
                    h, Tail(entries))

\* The orders a map's entries can be iterated in (the hash order is unspecified).
IterationOrders(map) ==
    {seq \in UNION {[1..k -> [name : ComponentNames, value : {map[n].Some : n \in Keys(map)}]]
                      : k \in {Cardinality(Keys(map))}} :
        /\ \A i \in DOMAIN seq : map[seq[i].name] = Some(seq[i].value)
        /\ \A i, j \in DOMAIN seq : i # j => seq[i].name # seq[j].name}

\* An into_iter that takes the map out of the allocation, shared or not.
StylesIntoIterTaking(st, h) ==
    [entries |-> st.heap[st.arc[h]],
     rest |-> [arc |-> [st.arc EXCEPT ![h] = 0],
               heap |-> [st.heap EXCEPT ![st.arc[h]] = EmptyMap]]]

\* impl IntoIterator for Styles: Arc::try_unwrap(self.0), or a clone of the map
\* when the Arc is shared; the handle is consumed either way.
StylesIntoIter(st, h) == [entries |-> st.heap[st.arc[h]], rest |-> ArcDrop(st, h)]

\* An append whose entries give way to the ones already there.
StylesAppendKeep(st, h, other, order) ==
    LET it == StylesIntoIter(st, other)
        kept == SelectSeq(order, LAMBDA e : st.heap[st.arc[h]][e.name] = None)
    IN  InsertEach(it.rest, h, kept)
\* Styles::append(&mut self, other), with the entries of other in this order
StylesAppend(st, h, other, order) == InsertEach(StylesIntoIter(st, other).rest, h, order)

\* A get that subscribes to redraws whatever the value is.
StylesGetAlwaysRedraw(map, cell, definition, context) ==
    LET found == map[NameOf(definition)]
        res == IF found = None THEN Err(None)
               ELSE TryFromComponent(definition.T, ValueGet(found.Some, cell))
    IN  IF IsOk(res)
        THEN [ret |-> res.Ok, calls |-> <<[redraw_when_changed |-> found.Some]>>]
        ELSE [ret |-> DefaultValue(definition, context), calls |-> <<>>]
\* A get that subscribes to the stored value even when it does not convert.
StylesGetSubscribeOnMismatch(map, cell, definition, context) ==
    LET found == map[NameOf(definition)]
        res == IF found = None THEN Err(None)
               ELSE TryFromComponent(definition.T, ValueGet(found.Some, cell))
    IN  IF IsOk(res)
        THEN [ret |-> res.Ok,
              calls |-> IF RequiresInvalidation(res.Ok)
                        THEN <<[invalidate_when_changed |-> found.Some]>>
                        ELSE <<[redraw_when_changed |-> found.Some]>>]
        ELSE [ret |-> DefaultValue(definition, context),
              calls |-> IF found = None THEN <<>>
                        ELSE <<[invalidate_when_changed |-> found.Some]>>]
\* Styles::get: what it returns and the calls it makes on the stored value
\* with the context.
StylesGet(map, cell, definition, context) ==
    LET found == map[NameOf(definition)]
        res == IF found = None THEN Err(None)
               ELSE TryFromComponent(definition.T, ValueGet(found.Some, cell))
    IN  IF IsOk(res)
        THEN [ret |-> res.Ok,
              calls |-> IF RequiresInvalidation(res.Ok)
                        THEN <<[invalidate_when_changed |-> found.Some]>>
                        ELSE <<[redraw_when_changed |-> found.Some]>>]
        ELSE [ret |-> DefaultValue(definition, context), calls |-> <<>>]

(***************************************************************************)
(* The three parts of the model are checked one at a time; these are the   *)
(* states of the parts that are not running.                               *)
(***************************************************************************)
IdleComponent == tval = None /\ comp = None /\ out = None
IdleRange == range = None /\ rout = None
IdleColor == builder = None /\ build = None /\ probe = None
IdleStyles ==
    /\ arc = [h \in Handles |-> 0]
    /\ heap = [a \in Allocs |-> EmptyMap]
    /\ cells = ComponentOf("Color", <<0, 0, 255, 255>>)
    /\ op = None

Registry == [arc |-> arc, heap |-> heap]
Live(h) == arc[h] # 0
Shared(h) == RefCount(Registry, arc[h]) > 1
Replaces(h, name) == View(h)[name] # None

\* Styles::new, Styles::default, Styles::with_capacity
New(h) ==
    /\ ~Live(h)
    /\ LET st == ArcNew(Registry, h, EmptyMap)
       IN  arc' = st.arc /\ heap' = st.heap
    /\ op' = [new |-> [handle |-> h]]
    /\ UNCHANGED <<cells, componentVars, rangeVars, colorVars>>

\* #[derive(Clone)]: another count of the same allocation
Clone(h, g) ==
    /\ Live(h)
    /\ ~Live(g)
    /\ arc' = [arc EXCEPT ![g] = arc[h]]
    /\ op' = [clone |-> [handle |-> g, of |-> h]]
    /\ UNCHANGED <<heap, cells, componentVars, rangeVars, colorVars>>

\* A handle goes out of scope.
Drop(h) ==
    /\ Live(h)
    /\ LET st == ArcDrop(Registry, h)
       IN  arc' = st.arc /\ heap' = st.heap
    /\ op' = [drop |-> [handle |-> h]]
    /\ UNCHANGED <<cells, componentVars, rangeVars, colorVars>>

InsertNamed(h, name, x) ==
    /\ Live(h)
    /\ LET st == StylesInsertNamed(Registry, h, name, IntoComponentValue(x))
       IN  arc' = st.arc /\ heap' = st.heap
    /\ op' = [insert_named |-> [handle |-> h, name |-> name, component |-> x,
                                 forked |-> Shared(h), replaced |-> Replaces(h, name)]]
    /\ UNCHANGED <<cells, componentVars, rangeVars, colorVars>>

\* Styles::insert: name.name().into_owned(), then insert_named
Insert(h, definition, x) ==
    /\ Live(h)
    /\ LET st == StylesInsertNamed(Registry, h, NameOf(definition), IntoComponentValue(x))
       IN  arc' = st.arc /\ heap' = st.heap
    /\ op' = [insert |-> [handle |-> h, name |-> NameOf(definition), component |-> x,
                           forked |-> Shared(h),
                           replaced |-> Replaces(h, NameOf(definition))]]
    /\ UNCHANGED <<cells, componentVars, rangeVars, colorVars>>

\* Styles::with: self.insert(name, component.into_value()), then self
With(h, definition, tv) ==
    /\ Live(h)
    /\ tv \in WithArgs(definition)
    /\ LET st == StylesInsertNamed(Registry, h, NameOf(definition),
                                   IntoComponentValue([Into |-> tv]))
       IN  arc' = st.arc /\ heap' = st.heap
    /\ op' = [with |-> [handle |-> h, name |-> NameOf(definition),
                         component |-> [Into |-> tv], forked |-> Shared(h),
                         replaced |-> Replaces(h, NameOf(definition))]]
    /\ UNCHANGED <<cells, componentVars, rangeVars, colorVars>>

\* Styles::get_named
GetNamed(h, name) ==
    /\ Live(h)
    /\ op' = [get_named |-> [handle |-> h, name |-> name, ret |-> StylesGetNamed(View(h), name)]]
    /\ UNCHANGED <<arc, heap, cells, componentVars, rangeVars, colorVars>>

Get(h, definition, context) ==
    /\ Live(h)
    /\ LET got == StylesGet(View(h), cells, definition, context)
       IN  op' = [get |-> [handle |-> h, definition |-> definition, context |-> context,
                           ret |-> got.ret, calls |-> got.calls]]
    /\ UNCHANGED <<arc, heap, cells, componentVars, rangeVars, colorVars>>

\* Styles::append
AppendStyles(h, other) ==
    /\ Live(h)
    /\ Live(other)
    /\ h # other
    /\ \E order \in IterationOrders(View(other)) :
          LET st == StylesAppend(Registry, h, other, order)
          IN  arc' = st.arc /\ heap' = st.heap
    /\ op' = [append |-> [handle |-> h, other |-> other,
                           overwrote |-> \E n \in Keys(View(other)) :
                                            View(h)[n] \notin {None, View(other)[n]}]]
    /\ UNCHANGED <<cells, componentVars, rangeVars, colorVars>>

\* Dynamic::set on the cell, by its owner
SetCell(c) ==
    /\ c # cells
    /\ cells' = c
    /\ op' = [set |-> [cell |-> "accent"]]
    /\ UNCHANGED <<arc, heap, componentVars, rangeVars, colorVars>>

InitStyles ==
    /\ arc = [h \in Handles |-> 0]
    /\ heap = [a \in Allocs |-> EmptyMap]
    /\ cells = ComponentOf("Color", <<0, 0, 255, 255>>)
    /\ op = None
    /\ IdleComponent
    /\ IdleRange
    /\ IdleColor

\* The handles are created, cloned, written, merged and dropped.
NextStyles ==
    \/ \E h \in Handles : New(h)
    \/ \E h, g \in Handles : Clone(h, g)
    \/ \E h \in Handles : Drop(h)
    \/ \E h \in Handles, n \in ComponentNames, x \in SharedArgs : InsertNamed(h, n, x)
    \/ \E h \in Handles, n \in ComponentNames, x \in SharedArgs :
          Insert(h, [name |-> n, T |-> "Color"], x)
    \/ \E h \in Handles, n \in ComponentNames :
          With(h, [name |-> n, T |-> "Color"], [Color |-> <<255, 0, 0, 255>>])
    \/ \E h, other \in Handles : AppendStyles(h, other)

SpecStyles == InitStyles /\ [][NextStyles]_vars

\* One handle is filled and read while the cell changes.
Reader == CHOOSE h \in Handles : \A g \in Handles : h <= g

NextGet ==
    \/ New(Reader)
    \/ \E n \in ComponentNames, x \in InsertArgs : InsertNamed(Reader, n, x)
    \/ \E n \in ComponentNames : GetNamed(Reader, n)
    \/ \E d \in Definitions, c \in Contexts : Get(Reader, d, c)
    \/ \E c \in CellValues : SetCell(c)

SpecGet == InitStyles /\ [][NextGet]_vars

(***************************************************************************)
(* The conversions as a state machine: a typed value is turned into a      *)
(* Component, which is then projected, downcast or classified.             *)
(***************************************************************************)
\* The types with an impl From<T> for Component.
FromTypes ==
    {"Color", "Dimension", "Px", "Lp", "DimensionRange", "VisualOrder",
     "FocusableWidgets", "ContainerLevel", "FamilyOwned", "Weight", "Style",
     "CornerRadiiPx", "CornerRadiiLp", "CornerRadiiDimension", "FontFamilyList",
     "CustomComponent"}

ConvInto ==
    /\ tval # None
    /\ comp = None
    /\ Tag(tval) \in FromTypes
    /\ comp' = IntoComponent(tval)
    /\ UNCHANGED <<tval, out, stylesVars, rangeVars, colorVars>>

ConvCustom ==
    /\ tval \in CustomPayloads
    /\ comp = None
    /\ comp' = ComponentCustom(tval)
    /\ UNCHANGED <<tval, out, stylesVars, rangeVars, colorVars>>

ConvTryFrom(T) ==
    /\ comp # None
    /\ out' = [TryFrom |-> [T |-> T, res |-> TryFromComponent(T, comp)]]
    /\ UNCHANGED <<tval, comp, stylesVars, rangeVars, colorVars>>

ConvDowncast(T) ==
    /\ comp # None
    /\ Variant(comp) = "Custom"
    /\ out' = [Downcast |->
                 [T |-> T,
                  res |-> Downcast(Inner(comp), T),
                  of_clone |-> Downcast(CustomComponentClone(Inner(comp)), T)]]
    /\ UNCHANGED <<tval, comp, stylesVars, rangeVars, colorVars>>

ConvRequiresInvalidation ==
    /\ \/ /\ tval # None
          /\ out' = [Requires |-> [of |-> "value", res |-> RequiresInvalidation(tval)]]
       \/ /\ comp # None
          /\ Variant(comp) = "Custom"
          /\ out' = [Requires |->
                       [of |-> "custom",
                        res |-> RequiresInvalidation([CustomComponent |-> Inner(comp)])]]
    /\ UNCHANGED <<tval, comp, stylesVars, rangeVars, colorVars>>

InitComponent ==
    /\ \/ tval \in TypedValues \cup CustomPayloads /\ comp = None
       \/ tval = None /\ comp \in Components
    /\ out = None
    /\ IdleStyles
    /\ IdleRange
    /\ IdleColor

NextComponent ==
    \/ ConvInto
    \/ ConvCustom
    \/ \E T \in ComponentTypes : ConvTryFrom(T)
    \/ \E T \in DowncastTypes : ConvDowncast(T)
    \/ ConvRequiresInvalidation

SpecComponent == InitComponent /\ [][NextComponent]_vars

(***************************************************************************)
(* DimensionRange: its constructors and queries.                           *)
(***************************************************************************)
\* impl From<RangeInclusive<T>> for DimensionRange
RangeFromRangeInclusive(first, last) == [start |-> Included(first), end |-> Included(last)]
\* impl<T: Into<Dimension>> From<T> for DimensionRange: dimension..=dimension
RangeFromDimension(dimension) == RangeFromRangeInclusive(dimension, dimension)
\* impl From<Range<T>> for DimensionRange
RangeFromRange(first, last) == [start |-> Included(first), end |-> Excluded(last)]
\* impl From<RangeFull> for DimensionRange
RangeFromRangeFull == [start |-> Unbounded, end |-> Unbounded]
\* impl From<RangeFrom<T>> for DimensionRange
RangeFromRangeFrom(first) == [start |-> Included(first), end |-> Unbounded]
\* impl From<RangeTo<T>> for DimensionRange
RangeFromRangeTo(last) == [start |-> Unbounded, end |-> Excluded(last)]
\* impl From<RangeToInclusive<T>> for DimensionRange
RangeFromRangeToInclusive(last) == [start |-> Unbounded, end |-> Included(last)]

\* A Dimension moved by delta units, keeping its variant.
DimensionPlus(d, delta) == (Tag(d) :> (Payload(d) + delta))

\* DimensionRange::exact_dimension
ExactDimension(r) ==
    IF Tag(r.start) = "Excluded" /\ Tag(r.end) = "Included" /\ r.start.Excluded = r.end.Included
    THEN Some(r.start.Excluded)
    ELSE None

\* DimensionRange::minimum
Minimum(r) ==
    CASE Tag(r.start) = "Unbounded" -> None
      [] Tag(r.start) = "Excluded" -> Some(DimensionPlus(r.start.Excluded, 1))
      [] Tag(r.start) = "Included" -> Some(r.start.Included)

MaximumKeepsExcluded(r) ==
    CASE Tag(r.end) = "Unbounded" -> None
      [] Tag(r.end) = "Excluded" -> Some(r.end.Excluded)
      [] Tag(r.end) = "Included" -> Some(r.end.Included)

\* DimensionRange::maximum
Maximum(r) ==
    CASE Tag(r.end) = "Unbounded" -> None
      [] Tag(r.end) = "Excluded" -> Some(DimensionPlus(r.end.Excluded, 0 - 1))
      [] Tag(r.end) = "Included" -> Some(r.end.Included)

\* The unsigned pixel sizes handed to clamp, and the display scales.
UPxValues == {0, 1, 2, 5, 10, 15, 19, 20, 25}
Scales == {1, 2}
\* Dimensions of the documented ranges, beside the small ones.
LargeDimensions == {[Px |-> 10], [Px |-> 20], [Lp |-> 200], [Lp |-> 400]}
RangeDimensions == Dimension \cup LargeDimensions

\* Px::into_unsigned: negative pixels saturate to zero.
PxIntoUnsigned(px) == IF px < 0 THEN 0 ELSE px
\* Lp::into_upx(scale): 1905 Lp to the inch, 96 pixels to the inch at scale 1.
LpIntoUPx(lp, scale) == PxIntoUnsigned((lp * 96 * scale) \div 1905)
\* <Dimension as ScreenScale>::into_upx
IntoUPx(d, scale) ==
    CASE Tag(d) = "Px" -> PxIntoUnsigned(d.Px)
      [] Tag(d) = "Lp" -> LpIntoUPx(d.Lp, scale)

\* UPx::max and UPx::min
UPxMax(a, b) == IF a >= b THEN a ELSE b
UPxMin(a, b) == IF a <= b THEN a ELSE b

\* DimensionRange::clamp: first raised to the minimum, then lowered to the maximum.
ClampRaised(r, size, scale) ==
    IF IsSome(Minimum(r)) THEN UPxMax(size, IntoUPx(Minimum(r).Some, scale)) ELSE size
\* A clamp that applies the maximum first and the minimum last.
ClampMaximumFirst(r, size, scale) ==
    LET lowered == IF IsSome(Maximum(r)) THEN UPxMin(size, IntoUPx(Maximum(r).Some, scale))
                   ELSE size
    IN  IF IsSome(Minimum(r)) THEN UPxMax(lowered, IntoUPx(Minimum(r).Some, scale)) ELSE lowered
Clamp(r, size, scale) ==
    LET raised == ClampRaised(r, size, scale)
    IN  IF IsSome(Maximum(r)) THEN UPxMin(raised, IntoUPx(Maximum(r).Some, scale)) ELSE raised

\* range = [from |-> how the range was built, value |-> the DimensionRange]
Built(from, value) == [from |-> from, value |-> value]

RangeSingle ==
    /\ \E d \in Dimension : range' = Built([Single |-> d], RangeFromDimension(d))
    /\ rout' = None
    /\ UNCHANGED <<stylesVars, componentVars, colorVars>>

RangeHalfOpen ==
    /\ \E a, b \in RangeDimensions : range' = Built([Range |-> <<a, b>>], RangeFromRange(a, b))
    /\ rout' = None
    /\ UNCHANGED <<stylesVars, componentVars, colorVars>>

RangeInclusive ==
    /\ \E a, b \in Dimension :
          range' = Built([RangeInclusive |-> <<a, b>>], RangeFromRangeInclusive(a, b))
    /\ rout' = None
    /\ UNCHANGED <<stylesVars, componentVars, colorVars>>

RangeFull ==
    /\ range' = Built([RangeFull |-> TRUE], RangeFromRangeFull)
    /\ rout' = None
    /\ UNCHANGED <<stylesVars, componentVars, colorVars>>

RangeFrom ==
    /\ \E a \in Dimension : range' = Built([RangeFrom |-> a], RangeFromRangeFrom(a))
    /\ rout' = None
    /\ UNCHANGED <<stylesVars, componentVars, colorVars>>

RangeTo ==
    /\ \E b \in Dimension : range' = Built([RangeTo |-> b], RangeFromRangeTo(b))
    /\ rout' = None
    /\ UNCHANGED <<stylesVars, componentVars, colorVars>>

RangeToInclusive ==
    /\ \E b \in Dimension :
          range' = Built([RangeToInclusive |-> b], RangeFromRangeToInclusive(b))
    /\ rout' = None
    /\ UNCHANGED <<stylesVars, componentVars, colorVars>>

\* The fields are public: DimensionRange { start, end } with any bounds.
RangeLiteral ==
    /\ \E r \in DimensionRange : range' = Built([Literal |-> TRUE], r)
    /\ rout' = None
    /\ UNCHANGED <<stylesVars, componentVars, colorVars>>

RangeExactDimension ==
    /\ range # None
    /\ rout' = [ExactDimension |-> ExactDimension(range.value)]
    /\ UNCHANGED <<range, stylesVars, componentVars, colorVars>>

RangeMinimum ==
    /\ range # None
    /\ rout' = [Minimum |-> Minimum(range.value)]
    /\ UNCHANGED <<range, stylesVars, componentVars, colorVars>>

RangeMaximum ==
    /\ range # None
    /\ rout' = [Maximum |-> Maximum(range.value)]
    /\ UNCHANGED <<range, stylesVars, componentVars, colorVars>>

RangeClamp ==
    /\ range # None
    /\ \E size \in UPxValues, scale \in Scales :
          rout' = [Clamp |-> [size |-> size, scale |-> scale,
                              res |-> Clamp(range.value, size, scale)]]
    /\ UNCHANGED <<range, stylesVars, componentVars, colorVars>>

InitRange == IdleRange /\ IdleStyles /\ IdleComponent /\ IdleColor

NextRange ==
    \/ RangeSingle
    \/ RangeHalfOpen
    \/ RangeInclusive
    \/ RangeFull
    \/ RangeFrom
    \/ RangeTo
    \/ RangeToInclusive
    \/ RangeLiteral
    \/ RangeExactDimension
    \/ RangeMinimum
    \/ RangeMaximum
    \/ RangeClamp

SpecRange == InitRange /\ [][NextRange]_vars

(***************************************************************************)
(* Colour arithmetic.  f32 values are exact fractions <<numerator,         *)
(* denominator>> in lowest terms; an OklabHue is its angle in whole        *)
(* degrees, unnormalised as palette keeps it.                              *)
(***************************************************************************)
\* An operand is evaluated once, by binding it: Once(S) is the element of
\* the singleton S.
Once(S) == CHOOSE f \in S : TRUE
RECURSIVE GCD(_, _)
GCD(a, b) == IF b = 0 THEN a ELSE Once({GCD(y[1], y[2]) : y \in {<<b, a % b>>}})
Abs(x) == IF x < 0 THEN 0 - x ELSE x
LowestTerms(x) == Once({<<x[1] \div g, x[2] \div g>> : g \in {GCD(Abs(x[1]), x[2])}})
F32(n, d) == Once({LowestTerms(x) : x \in {<<n, d>>}})
F32Add(a, b) ==
    Once({F32(x[1][1] * x[2][2] + x[2][1] * x[1][2], x[1][2] * x[2][2]) : x \in {<<a, b>>}})
F32Sub(a, b) ==
    Once({F32(x[1][1] * x[2][2] - x[2][1] * x[1][2], x[1][2] * x[2][2]) : x \in {<<a, b>>}})
F32Mul(a, b) == Once({F32(x[1][1] * x[2][1], x[1][2] * x[2][2]) : x \in {<<a, b>>}})
F32Div(a, k) == Once({F32(x[1], x[2] * k) : x \in {a}})
F32Less(a, b) == \E x \in {<<a, b>>} : x[1][1] * x[2][2] < x[2][1] * x[1][2]

\* ZeroToOne::new: the value clamped to 0.0..=1.0
ZeroToOneNew(f) ==
    IF F32Less(f, F32(0, 1)) THEN F32(0, 1)
    ELSE IF F32Less(F32(1, 1), f) THEN F32(1, 1)
    ELSE f
\* ZeroToOne::difference_between
DifferenceBetween(a, b) == IF F32Less(a, b) THEN F32Sub(b, a) ELSE F32Sub(a, b)
\* ZeroToOne::one_minus
OneMinus(a) == F32Sub(F32(1, 1), a)
\* impl Mul for ZeroToOne
ZeroToOneMul(a, b) == F32Mul(a, b)
\* impl Div<f32> for ZeroToOne
ZeroToOneDiv(a, k) == ZeroToOneNew(F32Div(a, k))

\* OklabHue::into_positive_degrees: the angle in [0, 360)
IntoPositiveDegrees(hue) == hue % 360
\* OklabHue::into_degrees: the angle in (-180, 180]
IntoDegrees(hue) == IF hue % 360 > 180 THEN (hue % 360) - 360 ELSE hue % 360
\* f32::signum: 1.0 for +0.0 and above, -1.0 below
Signum(x) == IF x >= 0 THEN 1 ELSE 0 - 1

\* ColorSource::new
ColorSourceNew(hue, saturation) == [hue |-> hue, saturation |-> saturation]

\* The shortest distance between the hues, in degrees.
HueDistanceNoWrap(self_hue, other_hue) ==
    IF self_hue < other_hue THEN other_hue - self_hue ELSE self_hue - other_hue
HueDistance(self_hue, other_hue) ==
    IF self_hue < other_hue
    THEN LET hue_delta_a == other_hue - self_hue
             hue_delta_b == self_hue + 360 - other_hue
         IN  IF hue_delta_a <= hue_delta_b THEN hue_delta_a ELSE hue_delta_b
    ELSE LET hue_delta_a == self_hue - other_hue
             hue_delta_b == other_hue + 360 - self_hue
         IN  IF hue_delta_a <= hue_delta_b THEN hue_delta_a ELSE hue_delta_b

\* let hue_delta = ZeroToOne::new(.. / 180.)
HueDelta(self, other) ==
    ZeroToOneNew(F32(HueDistance(IntoPositiveDegrees(self.hue),
                                 IntoPositiveDegrees(other.hue)), 180))

SourceContrastOfSelf(self, other) ==
    ZeroToOneMul(OneMinus(self.saturation), HueDelta(self, other))
\* ColorSource::contrast_between
SourceContrastBetween(self, other) ==
    LET saturation_delta == DifferenceBetween(self.saturation, other.saturation)
    IN  ZeroToOneMul(OneMinus(saturation_delta), HueDelta(self, other))

\* A kludgine Color by the Okhsl coordinates palette converts it to, and its alpha.
OkhslColors ==
    {c \in [hue : {0, 90, 180}, saturation : {F32(0, 1), F32(1, 1)},
            lightness : {F32(0, 1), F32(1, 2), F32(1, 1)},
            alpha : {F32(0, 1), F32(1, 2), F32(1, 1)}] :
        \* black and white are greys
        c.lightness # F32(1, 2) => c.saturation = F32(0, 1)}

\* <Color as ColorExt>::into_source_and_lightness
IntoSourceAndLightness(color) ==
    [source |-> ColorSourceNew(color.hue, ZeroToOneNew(color.saturation)),
     lightness |-> ZeroToOneNew(F32Mul(color.lightness, color.alpha))]

\* <Color as ColorExt>::contrast_between
ColorContrastBetween(self, check_source, check_lightness, check_alpha) ==
    LET other == IntoSourceAndLightness(self)
        lightness_delta == DifferenceBetween(other.lightness, check_lightness)
        average_lightness == ZeroToOneNew(F32Div(F32Add(check_lightness, other.lightness), 2))
        source_change == SourceContrastBetween(check_source, other.source)
        other_alpha == ZeroToOneNew(self.alpha)
        alpha_delta == DifferenceBetween(check_alpha, other_alpha)
    IN  ZeroToOneNew(F32Div(
            F32Add(lightness_delta,
                   F32Add(F32Mul(average_lightness, source_change),
                          F32Mul(average_lightness, alpha_delta))), 3))

\* The sources and values the colour functions are called with.
HueSamples == {0 - 355, 0 - 180, 0 - 5, 0, 1, 5, 30, 90, 179, 180, 181, 355, 359, 360, 365, 540}
SaturationSamples == {F32(0, 1), F32(1, 2), F32(4, 5), F32(1, 1)}
ColorSources == [hue : HueSamples, saturation : SaturationSamples]
CheckSources == [hue : {0, 180, 270}, saturation : {F32(0, 1), F32(1, 1)}]
UnitSamples == {F32(0, 1), F32(1, 2), F32(1, 1)}

\* probe holds the arguments of a call, then the call with its result.
SourceContrastArgs == [self : ColorSources, other : ColorSources]
ColorContrastArgs ==
    [self : OkhslColors, check_source : CheckSources,
     check_lightness : UnitSamples, check_alpha : UnitSamples]

ProbeSourceContrast ==
    /\ probe # None
    /\ Tag(probe) = "SourceContrastArgs"
    /\ LET args == probe.SourceContrastArgs
       IN  probe' = [SourceContrast |->
                        [self |-> args.self, other |-> args.other,
                         hue_delta |-> HueDelta(args.self, args.other),
                         res |-> SourceContrastBetween(args.self, args.other)]]
    /\ UNCHANGED <<stylesVars, componentVars, rangeVars, builder, build>>

ProbeColorContrast ==
    /\ probe # None
    /\ Tag(probe) = "ColorContrastArgs"
    /\ LET args == probe.ColorContrastArgs
       IN  probe' = [ColorContrast |->
                        [self |-> args.self, check_source |-> args.check_source,
                         check_lightness |-> args.check_lightness,
                         check_alpha |-> args.check_alpha,
                         res |-> ColorContrastBetween(args.self, args.check_source,
                                                      args.check_lightness, args.check_alpha)]]
    /\ UNCHANGED <<stylesVars, componentVars, rangeVars, builder, build>>

InitColor ==
    /\ probe \in {[SourceContrastArgs |-> args] : args \in SourceContrastArgs}
                 \cup {[ColorContrastArgs |-> args] : args \in ColorContrastArgs}
    /\ builder = None
    /\ build = None
    /\ IdleStyles
    /\ IdleComponent
    /\ IdleRange

NextColor ==
    \/ ProbeSourceContrast
    \/ ProbeColorContrast

SpecColor == InitColor /\ [][NextColor]_vars

(***************************************************************************)
(* ColorSchemeBuilder.  builder is the builder value; build is None until  *)
(* build() is called, then the position in generate_error's loop with the  *)
(* locals of build(), then the finished ColorScheme.                       *)
(***************************************************************************)
\* impl ProtoColor for f32 / OklabHue (a bare hue) and for ColorSource /
\* (Hue, Saturation) (a hue with its saturation)
ProtoHue(hue) == [Hue |-> hue]
ProtoSource(hue, saturation) == [Source |-> ColorSourceNew(hue, saturation)]
\* ProtoColor::hue
ProtoColorHue(proto) == IF Tag(proto) = "Hue" THEN proto.Hue ELSE proto.Source.hue
\* ProtoColor::saturation
ProtoColorSaturation(proto) ==
    IF Tag(proto) = "Hue" THEN None ELSE Some(proto.Source.saturation)
\* ProtoColor::into_source
IntoSource(proto, saturation_if_not_provided) ==
    ColorSourceNew(ProtoColorHue(proto),
                   IF IsSome(ProtoColorSaturation(proto))
                   THEN ProtoColorSaturation(proto).Some
                   ELSE saturation_if_not_provided)

\* ColorSchemeBuilder::new
BuilderNew(primary) ==
    [primary |-> IntoSource(primary, ZeroToOneNew(F32(4, 5))),
     secondary |-> None, tertiary |-> None, error |-> None,
     neutral |-> None, neutral_variant |-> None, hue_shift |-> 30]

GenerateSecondarySaturated(b) ==
    ColorSourceNew(b.primary.hue + b.hue_shift, b.primary.saturation)
\* ColorSchemeBuilder::generate_secondary
GenerateSecondary(b) ==
    ColorSourceNew(b.primary.hue + b.hue_shift, ZeroToOneDiv(b.primary.saturation, 2))

\* ColorSchemeBuilder::generate_tertiary
GenerateTertiary(b, secondary) ==
    LET hue_shift == Signum(IntoDegrees(secondary.hue - b.primary.hue))
                         * IntoDegrees(b.hue_shift)
    IN  ColorSourceNew(b.primary.hue - hue_shift, ZeroToOneDiv(b.primary.saturation, 3))

\* ColorSchemeBuilder::generate_neutral
GenerateNeutral(b) == ColorSourceNew(b.primary.hue, ZeroToOneNew(F32(1, 100)))
\* ColorSchemeBuilder::generate_neutral_variant
GenerateNeutralVariant(b) ==
    ColorSourceNew(b.primary.hue, ZeroToOneDiv(b.primary.saturation, 10))

\* generate_error: the first candidate
ErrorCandidate(b) == ColorSourceNew(30, b.primary.saturation)
PoorContrastWithPrimary(b, secondary, tertiary, error) ==
    F32Less(SourceContrastBetween(b.primary, error), F32(1, 10))
\* generate_error: the loop's condition
PoorContrast(b, secondary, tertiary, error) ==
    \E c \in {b.primary, secondary, tertiary} :
        F32Less(SourceContrastBetween(c, error), F32(1, 10))
\* generate_error: error.hue -= self.hue_shift.  Every reader of a hue here
\* (into_positive_degrees, into_degrees, ==) reads its angle on the circle,
\* and the candidate is kept as that angle.
NextCandidate(b, error) ==
    ColorSourceNew(IntoPositiveDegrees(error.hue - b.hue_shift), error.saturation)

\* ColorSchemeBuilder::secondary
BuilderSecondary(b, secondary) ==
    [b EXCEPT !.secondary = Some(IntoSource(secondary, ZeroToOneDiv(b.primary.saturation, 2)))]
\* ColorSchemeBuilder::tertiary
BuilderTertiary(b, tertiary) ==
    [b EXCEPT !.secondary = Some(IntoSource(tertiary, ZeroToOneDiv(b.primary.saturation, 3)))]
\* ColorSchemeBuilder::neutral
BuilderNeutral(b, neutral) ==
    [b EXCEPT !.neutral = Some(IntoSource(neutral, ZeroToOneNew(F32(1, 100))))]
\* ColorSchemeBuilder::neutral_variant
BuilderNeutralVariant(b, neutral_variant) ==
    [b EXCEPT !.neutral_variant =
        Some(IntoSource(neutral_variant, ZeroToOneDiv(b.primary.saturation, 10)))]
\* ColorSchemeBuilder::hue_shift
BuilderHueShift(b, hue_shift) == [b EXCEPT !.hue_shift = hue_shift]

\* An unwrap_or_else that always takes the generated value.
UnwrapOrGenerated(option, generated) == generated
\* Option::unwrap_or_else
UnwrapOr(option, generated) == IF IsSome(option) THEN option.Some ELSE generated

\* build(): let secondary, let tertiary
BuildSecondary(b) == UnwrapOr(b.secondary, GenerateSecondary(b))
BuildTertiary(b) == UnwrapOr(b.tertiary, GenerateTertiary(b, BuildSecondary(b)))
\* build(): the ColorScheme returned
BuildScheme(b, secondary, tertiary, error) ==
    [primary |-> b.primary, secondary |-> secondary, tertiary |-> tertiary,
     error |-> error,
     neutral |-> UnwrapOr(b.neutral, GenerateNeutral(b)),
     neutral_variant |-> UnwrapOr(b.neutral_variant, GenerateNeutralVariant(b))]

IsGenerating == build # None /\ Tag(build) = "GenerateError"
IsDone == build # None /\ Tag(build) = "Done"

\* The arguments the builder is called with.
PrimaryHues == 0..359
PrimarySaturations == {F32(0, 1), F32(3, 10), F32(4, 5), F32(1, 1)}
Primaries ==
    {ProtoHue(h) : h \in PrimaryHues}
        \cup {ProtoSource(h, s) : h \in PrimaryHues, s \in PrimarySaturations}
SchemePrimaries == {ProtoHue(0), ProtoSource(30, F32(1, 1)), ProtoSource(200, F32(1, 2))}
SchemeProtos == {ProtoHue(300), ProtoSource(90, F32(0, 1)), ProtoSource(20, F32(1, 1))}
HueShifts == {0, 0 - 30, 45, 200}

SchemeNew(primary) ==
    /\ builder = None
    /\ builder' = BuilderNew(primary)
    /\ probe' = [New |-> primary]
    /\ UNCHANGED <<build, stylesVars, componentVars, rangeVars>>

SchemeSecondary(secondary) ==
    /\ builder # None /\ build = None
    /\ builder' = BuilderSecondary(builder, secondary)
    /\ probe' = [Secondary |-> secondary]
    /\ UNCHANGED <<build, stylesVars, componentVars, rangeVars>>

SchemeTertiary(tertiary) ==
    /\ builder # None /\ build = None
    /\ builder' = BuilderTertiary(builder, tertiary)
    /\ probe' = [Tertiary |-> tertiary]
    /\ UNCHANGED <<build, stylesVars, componentVars, rangeVars>>

SchemeNeutral(neutral) ==
    /\ builder # None /\ build = None
    /\ builder' = BuilderNeutral(builder, neutral)
    /\ probe' = [Neutral |-> neutral]
    /\ UNCHANGED <<build, stylesVars, componentVars, rangeVars>>

SchemeNeutralVariant(neutral_variant) ==
    /\ builder # None /\ build = None
    /\ builder' = BuilderNeutralVariant(builder, neutral_variant)
    /\ probe' = [NeutralVariant |-> neutral_variant]
    /\ UNCHANGED <<build, stylesVars, componentVars, rangeVars>>

SchemeHueShift(hue_shift) ==
    /\ builder # None /\ build = None
    /\ builder' = BuilderHueShift(builder, hue_shift)
    /\ probe' = [HueShift |-> hue_shift]
    /\ UNCHANGED <<build, stylesVars, componentVars, rangeVars>>

\* build() up to the call of generate_error, or to its end when error is set.
SchemeBuild ==
    /\ builder # None /\ build = None
    /\ build' = IF IsSome(builder.error)
                THEN [Done |-> BuildScheme(builder, BuildSecondary(builder),
                                           BuildTertiary(builder), builder.error.Some)]
                ELSE [GenerateError |->
                         [secondary |-> BuildSecondary(builder),
                          tertiary |-> BuildTertiary(builder),
                          error |-> ErrorCandidate(builder),
                          rejected |-> {}]]
    /\ probe' = [Build |-> TRUE]
    /\ UNCHANGED <<builder, stylesVars, componentVars, rangeVars>>

\* One turn of generate_error's loop: the candidate contrasts poorly.
SchemeErrorRetry ==
    /\ IsGenerating
    /\ LET g == build.GenerateError
       IN  /\ PoorContrast(builder, g.secondary, g.tertiary, g.error)
           /\ build' = [GenerateError |->
                           [g EXCEPT !.error = NextCandidate(builder, g.error),
                                     !.rejected = g.rejected \cup {g.error}]]
    /\ UNCHANGED <<builder, probe, stylesVars, componentVars, rangeVars>>

\* generate_error returns its candidate and build() the scheme.
SchemeBuildFinish ==
    /\ IsGenerating
    /\ LET g == build.GenerateError
       IN  /\ ~PoorContrast(builder, g.secondary, g.tertiary, g.error)
           /\ build' = [Done |-> BuildScheme(builder, g.secondary, g.tertiary, g.error)]
    /\ UNCHANGED <<builder, probe, stylesVars, componentVars, rangeVars>>

InitScheme == IdleColor /\ IdleStyles /\ IdleComponent /\ IdleRange

NextScheme ==
    \/ \E primary \in SchemePrimaries : SchemeNew(primary)
    \/ \E secondary \in SchemeProtos : SchemeSecondary(secondary)
    \/ \E tertiary \in SchemeProtos : SchemeTertiary(tertiary)
    \/ \E neutral \in SchemeProtos : SchemeNeutral(neutral)
    \/ \E neutral_variant \in SchemeProtos : SchemeNeutralVariant(neutral_variant)
    \/ \E hue_shift \in HueShifts : SchemeHueShift(hue_shift)
    \/ SchemeBuild
    \/ SchemeErrorRetry
    \/ SchemeBuildFinish

SpecScheme == InitScheme /\ [][NextScheme]_vars

\* ColorSchemeBuilder::new(primary).build() and ColorScheme::from_primary
NextFromPrimary ==
    \/ \E primary \in Primaries : SchemeNew(primary)
    \/ SchemeBuild
    \/ SchemeErrorRetry
    \/ SchemeBuildFinish

\* build() runs to its end: each of its steps is taken when it can be.
SpecFromPrimary ==
    /\ InitScheme
    /\ [][NextFromPrimary]_vars
    /\ WF_vars(SchemeBuild)
    /\ WF_vars(SchemeErrorRetry)
    /\ WF_vars(SchemeBuildFinish)

(***************************************************************************)
(* ColorExt::most_contrasting and the colour round trip.                   *)
(***************************************************************************)
\* if contrast_amount > most_contrast_amount
ContrastGreaterOrEqual(contrast_amount, most_contrast_amount) ==
    ~F32Less(contrast_amount, most_contrast_amount)
ContrastGreater(contrast_amount, most_contrast_amount) ==
    F32Less(most_contrast_amount, contrast_amount)

\* other.contrast_between(check_source, check_lightness, check_alpha), with
\* the check values taken from self as most_contrasting takes them
ContrastAgainst(self, other) ==
    LET check == IntoSourceAndLightness(self)
        check_alpha == ZeroToOneNew(self.alpha)
    IN  ColorContrastBetween(other, check.source, check.lightness, check_alpha)

\* for other in others { .. }, from the i-th element on
RECURSIVE MostContrastingLoop(_, _, _, _)
MostContrastingLoop(self, others, i, most) ==
    IF i > Len(others) THEN most
    ELSE LET other == others[i]
             contrast_amount == ContrastAgainst(self, other)
         IN  IF ContrastGreater(contrast_amount, most.most_contrast_amount)
             THEN MostContrastingLoop(self, others, i + 1,
                      [most_contrasting |-> other, most_contrast_amount |-> contrast_amount])
             ELSE MostContrastingLoop(self, others, i + 1, most)

\* <Color as ColorExt>::most_contrasting
MostContrasting(self, others) ==
    IF others = <<>>
    THEN [Panic |-> "at least one comparison"]
    ELSE [Returned |->
            MostContrastingLoop(self, others, 2,
                [most_contrasting |-> others[1],
                 most_contrast_amount |-> ContrastAgainst(self, others[1])]).most_contrasting]

\* The colours most_contrasting is called with.
OkhslColor(hue, saturation, lightness, alpha) ==
    [hue |-> hue, saturation |-> saturation, lightness |-> lightness, alpha |-> alpha]
CandidateColors ==
    {OkhslColor(0, F32(0, 1), F32(0, 1), F32(1, 1)),
     OkhslColor(0, F32(0, 1), F32(1, 1), F32(1, 1)),
     OkhslColor(0, F32(0, 1), F32(0, 1), F32(0, 1)),
     OkhslColor(0, F32(0, 1), F32(1, 1), F32(1, 2)),
     OkhslColor(0, F32(1, 1), F32(1, 2), F32(1, 1)),
     OkhslColor(90, F32(1, 1), F32(1, 2), F32(1, 1)),
     OkhslColor(180, F32(1, 1), F32(1, 2), F32(1, 1)),
     OkhslColor(180, F32(0, 1), F32(1, 2), F32(1, 1))}
SelfColors ==
    {OkhslColor(0, F32(0, 1), F32(0, 1), F32(1, 1)),
     OkhslColor(0, F32(0, 1), F32(1, 1), F32(1, 1)),
     OkhslColor(0, F32(1, 1), F32(1, 2), F32(1, 1)),
     OkhslColor(90, F32(0, 1), F32(1, 2), F32(1, 2))}
OtherLists == UNION {[1..n -> CandidateColors] : n \in 0..3}
MostContrastingArgs == [self : SelfColors, others : OtherLists]

ProbeMostContrasting ==
    /\ probe # None
    /\ Tag(probe) = "MostContrastingArgs"
    /\ LET args == probe.MostContrastingArgs
       IN  probe' = [MostContrasting |->
                        [self |-> args.self, others |-> args.others,
                         res |-> MostContrasting(args.self, args.others)]]
    /\ UNCHANGED <<stylesVars, componentVars, rangeVars, builder, build>>

\* palette's conversion between Okhsl and Srgb.  It is a bijection between
\* (hue, saturation, lightness) and (red, green, blue) away from the greys;
\* the model computes it as the hexcone conversion, which is one, exactly in
\* fractions.  A grey has hue 0.
F32Abs(a) == Once({IF x[1] < 0 THEN <<0 - x[1], x[2]>> ELSE x : x \in {a}})
F32Quot(a, b) ==
    Once({IF x[2][1] < 0
          THEN F32(0 - (x[1][1] * x[2][2]), 0 - (x[1][2] * x[2][1]))
          ELSE F32(x[1][1] * x[2][2], x[1][2] * x[2][1]) : x \in {<<a, b>>}})
F32Max(a, b) == IF F32Less(a, b) THEN b ELSE a
F32Min(a, b) == IF F32Less(a, b) THEN a ELSE b

Chroma(saturation, lightness) ==
    F32Mul(F32Sub(F32(1, 1), F32Abs(F32Sub(F32Mul(F32(2, 1), lightness), F32(1, 1)))),
           saturation)

\* Okhsl::new(hue, saturation, lightness).into_color(): palette::Srgb
OkhslIntoSrgb(hsl) ==
    LET h == hsl.hue % 360
        c == Chroma(hsl.saturation, hsl.lightness)
        x == F32Mul(c, F32Sub(F32(1, 1), F32Abs(F32Sub(F32(h % 120, 60), F32(1, 1)))))
        m == F32Sub(hsl.lightness, F32Div(c, 2))
        z == F32(0, 1)
        rgb == CASE h < 60 -> <<c, x, z>>
                 [] h < 120 -> <<x, c, z>>
                 [] h < 180 -> <<z, c, x>>
                 [] h < 240 -> <<z, x, c>>
                 [] h < 300 -> <<x, z, c>>
                 [] OTHER -> <<c, z, x>>
    IN  [red |-> F32Add(rgb[1], m), green |-> F32Add(rgb[2], m), blue |-> F32Add(rgb[3], m)]

\* Srgb::new(red, green, blue).into_color(): palette::Okhsl
SrgbIntoOkhsl(rgb) ==
    LET max == F32Max(rgb.red, F32Max(rgb.green, rgb.blue))
        min == F32Min(rgb.red, F32Min(rgb.green, rgb.blue))
        lightness == F32Div(F32Add(max, min), 2)
        d == F32Sub(max, min)
        sixth == IF max = rgb.red THEN F32Quot(F32Sub(rgb.green, rgb.blue), d)
                 ELSE IF max = rgb.green
                      THEN F32Add(F32Quot(F32Sub(rgb.blue, rgb.red), d), F32(2, 1))
                      ELSE F32Add(F32Quot(F32Sub(rgb.red, rgb.green), d), F32(4, 1))
        degrees == F32Mul(sixth, F32(60, 1))
    IN  IF d = F32(0, 1)
        THEN [hue |-> 0, saturation |-> F32(0, 1), lightness |-> lightness]
        ELSE [hue |-> (degrees[1] \div degrees[2]) % 360,
              saturation |-> F32Quot(d, F32Sub(F32(1, 1),
                                 F32Abs(F32Sub(F32Mul(F32(2, 1), lightness), F32(1, 1))))),
              lightness |-> lightness]

\* Color::new_f32(red, green, blue, alpha)
ColorNewF32(red, green, blue, alpha) ==
    [red |-> red, green |-> green, blue |-> blue, alpha |-> alpha]

\* impl Lightness for f32, and for u8 (a percentage)
F32IntoLightness(lightness) == ZeroToOneNew(lightness)
U8IntoLightness(lightness) == ZeroToOneNew(F32(lightness, 100))

\* ColorSource::color
SourceColor(self, lightness) ==
    LET rgb == OkhslIntoSrgb([hue |-> self.hue, saturation |-> self.saturation,
                              lightness |-> lightness])
    IN  ColorNewF32(rgb.red, rgb.blue, rgb.green, F32(1, 1))

\* let hsl: palette::Okhsl = Srgb::new(self.red_f32(), self.green_f32(),
\* self.blue_f32()).into_color(), with the colour's alpha
OkhslOfColor(color) ==
    LET hsl == SrgbIntoOkhsl([red |-> color.red, green |-> color.green, blue |-> color.blue])
    IN  OkhslColor(hsl.hue, hsl.saturation, hsl.lightness, color.alpha)

\* The sources and lightnesses of the round trip: those the conversion is
\* one-to-one on.
RoundTripHues == {0, 29, 60, 90, 142, 180, 200, 264, 300, 359}
RoundTripArgs ==
    [source : [hue : RoundTripHues, saturation : {F32(1, 2), F32(4, 5), F32(1, 1)}],
     lightness : {F32(1, 10), F32(2, 5), F32(1, 2), F32(9, 10)}]
    \cup [source : [hue : {0}, saturation : {F32(0, 1)}],
          lightness : {F32(0, 1), F32(1, 2), F32(1, 1)}]

\* s.color(l).into_source_and_lightness()
ProbeRoundTrip ==
    /\ probe # None
    /\ Tag(probe) = "RoundTripArgs"
    /\ LET args == probe.RoundTripArgs
           color == SourceColor(args.source, F32IntoLightness(args.lightness))
       IN  probe' = [RoundTrip |->
                        [source |-> args.source, lightness |-> args.lightness,
                         color |-> color,
                         res |-> IntoSourceAndLightness(OkhslOfColor(color))]]
    /\ UNCHANGED <<stylesVars, componentVars, rangeVars, builder, build>>

(***************************************************************************)
(* Theme derivation.  A theme constructor is written as the tree of its    *)
(* source.color(lightness) calls, one per field; the theme is that tree    *)
(* with every call replaced by the Color it returns.                       *)
(***************************************************************************)
\* source.color(lightness) with a u8 lightness
Sample(source, lightness) == [source |-> source, lightness |-> lightness]
IsSample(x) == DOMAIN x = {"source", "lightness"}
RECURSIVE Sampled(_)
Sampled(x) ==
    IF IsSample(x)
    THEN SourceColor(x.source, U8IntoLightness(x.lightness))
    ELSE [f \in DOMAIN x |-> Sampled(x[f])]

\* ColorTheme::light_from_source
ColorThemeLightSwapped(source) ==
    [color |-> Sample(source, 40),
     color_dim |-> Sample(source, 20),
     color_bright |-> Sample(source, 45),
     on_color |-> Sample(source, 10),
     container |-> Sample(source, 90),
     on_container |-> Sample(source, 100)]
ColorThemeLightFromSource(source) ==
    [color |-> Sample(source, 40),
     color_dim |-> Sample(source, 20),
     color_bright |-> Sample(source, 45),
     on_color |-> Sample(source, 100),
     container |-> Sample(source, 90),
     on_container |-> Sample(source, 10)]

\* ColorTheme::dark_from_source
ColorThemeDarkFromSource(source) ==
    [color |-> Sample(source, 80),
     color_dim |-> Sample(source, 60),
     color_bright |-> Sample(source, 85),
     on_color |-> Sample(source, 10),
     container |-> Sample(source, 30),
     on_container |-> Sample(source, 90)]

\* FixedTheme::from_source
FixedThemeFromSource(source) ==
    [color |-> Sample(source, 90),
     dim_color |-> Sample(source, 80),
     on_color |-> Sample(source, 10),
     on_color_variant |-> Sample(source, 40)]

\* SurfaceTheme::light_from_sources
SurfaceThemeLightShared(neutral, neutral_variant) ==
    [color |-> Sample(neutral, 97),
     dim_color |-> Sample(neutral, 70),
     bright_color |-> Sample(neutral, 99),
     opaque_widget |-> Sample(neutral_variant, 70),
     lowest_container |-> Sample(neutral, 95),
     low_container |-> Sample(neutral, 92),
     container |-> Sample(neutral, 90),
     high_container |-> Sample(neutral, 85),
     highest_container |-> Sample(neutral, 80),
     on_color |-> Sample(neutral, 10),
     on_color_variant |-> Sample(neutral_variant, 30),
     outline |-> Sample(neutral_variant, 50),
     outline_variant |-> Sample(neutral, 60)]
SurfaceThemeLightFromSources(neutral, neutral_variant) ==
    [color |-> Sample(neutral, 97),
     dim_color |-> Sample(neutral, 70),
     bright_color |-> Sample(neutral, 99),
     opaque_widget |-> Sample(neutral_variant, 75),
     lowest_container |-> Sample(neutral, 95),
     low_container |-> Sample(neutral, 92),
     container |-> Sample(neutral, 90),
     high_container |-> Sample(neutral, 85),
     highest_container |-> Sample(neutral, 80),
     on_color |-> Sample(neutral, 10),
     on_color_variant |-> Sample(neutral_variant, 30),
     outline |-> Sample(neutral_variant, 50),
     outline_variant |-> Sample(neutral, 60)]

\* SurfaceTheme::dark_from_sources
SurfaceThemeDarkFromSources(neutral, neutral_variant) ==
    [color |-> Sample(neutral, 10),
     dim_color |-> Sample(neutral, 2),
     bright_color |-> Sample(neutral, 11),
     opaque_widget |-> Sample(neutral_variant, 40),
     lowest_container |-> Sample(neutral, 15),
     low_container |-> Sample(neutral, 20),
     container |-> Sample(neutral, 25),
     high_container |-> Sample(neutral, 30),
     highest_container |-> Sample(neutral, 35),
     on_color |-> Sample(neutral, 90),
     on_color_variant |-> Sample(neutral_variant, 70),
     outline |-> Sample(neutral_variant, 60),
     outline_variant |-> Sample(neutral, 50)]

\* Theme::light_from_sources
ThemeLightFromSources(primary, secondary, tertiary, error, neutral, neutral_variant) ==
    [primary |-> ColorThemeLightFromSource(primary),
     secondary |-> ColorThemeLightFromSource(secondary),
     tertiary |-> ColorThemeLightFromSource(tertiary),
     error |-> ColorThemeLightFromSource(error),
     surface |-> SurfaceThemeLightFromSources(neutral, neutral_variant)]

\* Theme::dark_from_sources
ThemeDarkFromSources(primary, secondary, tertiary, error, neutral, neutral_variant) ==
    [primary |-> ColorThemeDarkFromSource(primary),
     secondary |-> ColorThemeDarkFromSource(secondary),
     tertiary |-> ColorThemeDarkFromSource(tertiary),
     error |-> ColorThemeDarkFromSource(error),
     surface |-> SurfaceThemeDarkFromSources(neutral, neutral_variant)]

\* ThemePair::from_scheme
ThemePairFromScheme(scheme) ==
    [light |-> ThemeLightFromSources(scheme.primary, scheme.secondary, scheme.tertiary,
                                     scheme.error, scheme.neutral, scheme.neutral_variant),
     dark |-> ThemeDarkFromSources(scheme.primary, scheme.secondary, scheme.tertiary,
                                   scheme.error, scheme.neutral, scheme.neutral_variant),
     primary_fixed |-> FixedThemeFromSource(scheme.primary),
     secondary_fixed |-> FixedThemeFromSource(scheme.secondary),
     tertiary_fixed |-> FixedThemeFromSource(scheme.tertiary),
     scrim |-> Sample(scheme.neutral, 1),
     shadow |-> Sample(scheme.neutral, 1)]

\* The schemes themes are derived from: six sources, each field a different one.
SchemeFields == {"primary", "secondary", "tertiary", "error", "neutral", "neutral_variant"}
ThemeSources ==
    {ColorSourceNew(30, F32(4, 5)), ColorSourceNew(60, F32(2, 5)),
     ColorSourceNew(0, F32(4, 15)), ColorSourceNew(210, F32(4, 5)),
     ColorSourceNew(30, F32(1, 100)), ColorSourceNew(30, F32(2, 25))}
ColorSchemes ==
    {scheme \in [SchemeFields -> ThemeSources] :
        \A f, g \in SchemeFields : f # g => scheme[f] # scheme[g]}
SurfaceArgs == [neutral : ThemeSources, neutral_variant : ThemeSources]

ProbeFromScheme ==
    /\ probe # None
    /\ Tag(probe) = "FromSchemeArgs"
    /\ LET scheme == probe.FromSchemeArgs
           calls == ThemePairFromScheme(scheme)
       IN  probe' = [FromScheme |-> [scheme |-> scheme, calls |-> calls, res |-> Sampled(calls)]]
    /\ UNCHANGED <<stylesVars, componentVars, rangeVars, builder, build>>

ProbeSurfaceLight ==
    /\ probe # None
    /\ Tag(probe) = "SurfaceLightArgs"
    /\ LET args == probe.SurfaceLightArgs
           calls == SurfaceThemeLightFromSources(args.neutral, args.neutral_variant)
       IN  probe' = [SurfaceTheme |->
                        [mode |-> "light", neutral |-> args.neutral,
                         neutral_variant |-> args.neutral_variant,
                         calls |-> calls, res |-> Sampled(calls)]]
    /\ UNCHANGED <<stylesVars, componentVars, rangeVars, builder, build>>

ProbeSurfaceDark ==
    /\ probe # None
    /\ Tag(probe) = "SurfaceDarkArgs"
    /\ LET args == probe.SurfaceDarkArgs
           calls == SurfaceThemeDarkFromSources(args.neutral, args.neutral_variant)
       IN  probe' = [SurfaceTheme |->
                        [mode |-> "dark", neutral |-> args.neutral,
                         neutral_variant |-> args.neutral_variant,
                         calls |-> calls, res |-> Sampled(calls)]]
    /\ UNCHANGED <<stylesVars, componentVars, rangeVars, builder, build>>

InitTheme ==
    /\ probe \in {[MostContrastingArgs |-> args] : args \in MostContrastingArgs}
                 \cup {[RoundTripArgs |-> args] : args \in RoundTripArgs}
                 \cup {[FromSchemeArgs |-> scheme] : scheme \in ColorSchemes}
                 \cup {[SurfaceLightArgs |-> args] : args \in SurfaceArgs}
                 \cup {[SurfaceDarkArgs |-> args] : args \in SurfaceArgs}
    /\ builder = None
    /\ build = None
    /\ IdleStyles
    /\ IdleComponent
    /\ IdleRange

NextTheme ==
    \/ ProbeMostContrasting
    \/ ProbeRoundTrip
    \/ ProbeFromScheme
    \/ ProbeSurfaceLight
    \/ ProbeSurfaceDark

SpecTheme == InitTheme /\ [][NextTheme]_vars

(***************************************************************************)
(* ContainerLevel and VisualOrder, the nesting level and the layout order  *)
(* of a widget's context.  probe holds the level reached by repeated       *)
(* next() with the levels passed, and the order with the orders it was     *)
(* reversed from.                                                          *)
(***************************************************************************)
\* ContainerLevel::next
ContainerLevelNextSkipping(self) ==
    CASE self = "Lowest" -> Some("Low")
      [] self = "Low" -> Some("Mid")
      [] self = "Mid" -> Some("Highest")
      [] self = "High" -> Some("Highest")
      [] self = "Highest" -> None
ContainerLevelNext(self) ==
    CASE self = "Lowest" -> Some("Low")
      [] self = "Low" -> Some("Mid")
      [] self = "Mid" -> Some("High")
      [] self = "High" -> Some("Highest")
      [] self = "Highest" -> None

\* HorizontalOrder::rev
HorizontalOrderRev(self) ==
    CASE self = "LeftToRight" -> "RightToLeft"
      [] self = "RightToLeft" -> "LeftToRight"
\* VerticalOrder::rev
VerticalOrderRev(self) ==
    CASE self = "TopToBottom" -> "BottomToTop"
      [] self = "BottomToTop" -> "TopToBottom"
\* VisualOrder::right_to_left
VisualOrderRightToLeft == [horizontal |-> "RightToLeft", vertical |-> "TopToBottom"]
\* VisualOrder::left_to_right
VisualOrderLeftToRight == [horizontal |-> "LeftToRight", vertical |-> "TopToBottom"]
\* VisualOrder::rev
VisualOrderRevHorizontal(self) ==
    [horizontal |-> HorizontalOrderRev(self.horizontal), vertical |-> self.vertical]
VisualOrderRev(self) ==
    [horizontal |-> HorizontalOrderRev(self.horizontal),
     vertical |-> VerticalOrderRev(self.vertical)]

MaxRevs == 3         \* rev() calls in a row
IsContext == probe # None /\ Tag(probe) = "Context"

\* level = level.next(), for a level that is not yet None
LevelNext ==
    /\ IsContext
    /\ IsSome(probe.Context.level)
    /\ Len(probe.Context.passed) <= Cardinality(ContainerLevel)
    /\ probe' = [Context |->
                    [probe.Context EXCEPT
                        !.level = ContainerLevelNext(probe.Context.level.Some),
                        !.passed = Append(@, probe.Context.level.Some)]]
    /\ UNCHANGED <<stylesVars, componentVars, rangeVars, builder, build>>

\* order = order.rev()
OrderRev ==
    /\ IsContext
    /\ Len(probe.Context.reversed) < MaxRevs
    /\ probe' = [Context |->
                    [probe.Context EXCEPT
                        !.order = VisualOrderRev(probe.Context.order),
                        !.reversed = Append(@, probe.Context.order)]]
    /\ UNCHANGED <<stylesVars, componentVars, rangeVars, builder, build>>

\* order = VisualOrder::left_to_right()
OrderLeftToRight ==
    /\ IsContext
    /\ probe' = [Context |->
                    [probe.Context EXCEPT !.order = VisualOrderLeftToRight, !.reversed = <<>>]]
    /\ UNCHANGED <<stylesVars, componentVars, rangeVars, builder, build>>

\* order = VisualOrder::right_to_left()
OrderRightToLeft ==
    /\ IsContext
    /\ probe' = [Context |->
                    [probe.Context EXCEPT !.order = VisualOrderRightToLeft, !.reversed = <<>>]]
    /\ UNCHANGED <<stylesVars, componentVars, rangeVars, builder, build>>

InitContext ==
    /\ probe \in {[Context |-> [level |-> Some(level), passed |-> <<>>,
                                order |-> order, reversed |-> <<>>]] :
                     level \in ContainerLevel, order \in VisualOrder}
    /\ builder = None
    /\ build = None
    /\ IdleStyles
    /\ IdleComponent
    /\ IdleRange

NextContext ==
    \/ LevelNext
    \/ OrderRev
    \/ OrderLeftToRight
    \/ OrderRightToLeft

SpecContext == InitContext /\ [][NextContext]_vars

(***************************************************************************)
(* Styles handles consumed by value: into_iter, and append of a clone.     *)
(***************************************************************************)
\* other.clone() as a temporary: one more count of other's allocation, held
\* by no handle of the program (number 0)
StylesCloneTemporary(st, other) ==
    [arc |-> [h \in DOMAIN st.arc \cup {0} |-> IF h = 0 THEN st.arc[other] ELSE st.arc[h]],
     heap |-> st.heap]

\* self.append(other.clone()), with the entries in this order
StylesAppendClone(st, h, other, order) ==
    LET appended == StylesAppend(StylesCloneTemporary(st, other), h, 0, order)
    IN  [arc |-> [g \in Handles |-> appended.arc[g]], heap |-> appended.heap]

\* for (name, value) in styles { .. }: the handle is consumed, its entries
\* are yielded in the order the hash map gives them
IntoIter(h) ==
    /\ Live(h)
    /\ LET it == StylesIntoIter(Registry, h)
       IN  /\ arc' = it.rest.arc
           /\ heap' = it.rest.heap
           /\ \E order \in IterationOrders(it.entries) :
                 op' = [into_iter |-> [handle |-> h, shared |-> Shared(h), yielded |-> order]]
    /\ UNCHANGED <<cells, componentVars, rangeVars, colorVars>>

\* h.append(other.clone())
AppendClone(h, other) ==
    /\ Live(h)
    /\ Live(other)
    /\ h # other
    /\ \E order \in IterationOrders(View(other)) :
          LET st == StylesAppendClone(Registry, h, other, order)
          IN  arc' = st.arc /\ heap' = st.heap
    /\ op' = [append_clone |-> [handle |-> h, other |-> other,
                                 changed |-> \E n \in Keys(View(other)) :
                                                View(h)[n] # View(other)[n]]]
    /\ UNCHANGED <<cells, componentVars, rangeVars, colorVars>>

\* Handles are created, cloned, written, iterated by value and appended to.
NextIter ==
    \/ \E h \in Handles : New(h)
    \/ \E h, g \in Handles : Clone(h, g)
    \/ \E h \in Handles, n \in ComponentNames, x \in SharedArgs : InsertNamed(h, n, x)
    \/ \E h \in Handles : IntoIter(h)
    \/ \E h, other \in Handles : AppendClone(h, other)

SpecIter == InitStyles /\ [][NextIter]_vars

(***************************************************************************)
(* FontFamilyList handles.  probe holds the static DEFAULT (0 until its    *)
(* Lazy is forced, then its allocation), the allocation each handle holds  *)
(* (0 for no handle), the Vec in each allocation and the last call.        *)
(***************************************************************************)
MaxFamilies == 2     \* families pushed on one list
ListAllocs == 1..(MaxHandles + 1)
IsFonts == probe # None /\ Tag(probe) = "Fonts"

\* The strong count of an allocation: the handles that hold it, and DEFAULT.
ListCount(f, a) ==
    Cardinality({h \in Handles : f.arc[h] = a}) + (IF f.default = a THEN 1 ELSE 0)
ListFresh(f) ==
    CHOOSE a \in ListAllocs :
        /\ ListCount(f, a) = 0
        /\ \A b \in ListAllocs : ListCount(f, b) = 0 => a <= b

\* Lazy::new(|| FontFamilyList::from(vec![])), forced by the first access
LazyForce(f) ==
    IF f.default # 0
    THEN f
    ELSE LET a == ListFresh(f)
         IN  [f EXCEPT !.default = a, !.heap[a] = <<>>]

\* FontFamilyList::default, into handle h
ListDefault(f, h) ==
    LET forced == LazyForce(f)
    IN  [forced EXCEPT !.arc[h] = forced.default]

\* Arc::make_mut(&mut self.0) that never copies.
ListMakeMutInPlace(f, h) == f
\* Arc::make_mut(&mut self.0)
ListMakeMut(f, h) ==
    IF ListCount(f, f.arc[h]) = 1
    THEN f
    ELSE LET a == ListFresh(f)
         IN  [f EXCEPT !.arc[h] = a, !.heap[a] = f.heap[f.arc[h]]]

\* FontFamilyList::push
ListPush(f, h, family) ==
    LET m == ListMakeMut(f, h)
    IN  [m EXCEPT !.heap[m.arc[h]] = Append(@, family)]

\* Dropping handle h's Arc: the Vec is freed with the last count.
ListDrop(f, h) ==
    IF ListCount(f, f.arc[h]) = 1
    THEN [f EXCEPT !.arc[h] = 0, !.heap[f.arc[h]] = <<>>]
    ELSE [f EXCEPT !.arc[h] = 0]

FontsDefault(h) ==
    /\ IsFonts
    /\ probe.Fonts.arc[h] = 0
    /\ probe' = [Fonts |-> [ListDefault(probe.Fonts, h) EXCEPT !.last = [default |-> h]]]
    /\ UNCHANGED <<stylesVars, componentVars, rangeVars, builder, build>>

\* #[derive(Clone)]: another count of the same allocation
FontsClone(h, g) ==
    /\ IsFonts
    /\ probe.Fonts.arc[h] # 0
    /\ probe.Fonts.arc[g] = 0
    /\ probe' = [Fonts |-> [probe.Fonts EXCEPT !.arc[g] = probe.Fonts.arc[h],
                                                !.last = [clone |-> g]]]
    /\ UNCHANGED <<stylesVars, componentVars, rangeVars, builder, build>>

FontsPush(h, family) ==
    /\ IsFonts
    /\ probe.Fonts.arc[h] # 0
    /\ Len(probe.Fonts.heap[probe.Fonts.arc[h]]) < MaxFamilies
    /\ probe' = [Fonts |-> [ListPush(probe.Fonts, h, family) EXCEPT !.last = [push |-> h]]]
    /\ UNCHANGED <<stylesVars, componentVars, rangeVars, builder, build>>

\* A handle goes out of scope.
FontsDrop(h) ==
    /\ IsFonts
    /\ probe.Fonts.arc[h] # 0
    /\ probe' = [Fonts |-> [ListDrop(probe.Fonts, h) EXCEPT !.last = [drop |-> h]]]
    /\ UNCHANGED <<stylesVars, componentVars, rangeVars, builder, build>>

InitFonts ==
    /\ probe = [Fonts |-> [default |-> 0, arc |-> [h \in Handles |-> 0],
                           heap |-> [a \in ListAllocs |-> <<>>], last |-> None]]
    /\ builder = None
    /\ build = None
    /\ IdleStyles
    /\ IdleComponent
    /\ IdleRange

NextFonts ==
    \/ \E h \in Handles : FontsDefault(h)
    \/ \E h, g \in Handles : FontsClone(h, g)
    \/ \E h \in Handles, family \in FamilyOwned : FontsPush(h, family)
    \/ \E h \in Handles : FontsDrop(h)

SpecFonts == InitFonts /\ [][NextFonts]_vars

(***************************************************************************)
(* ColorSchemeBuilder with fields assigned by the caller: secondary,       *)
(* tertiary, error, neutral and neutral_variant are public.                *)
(***************************************************************************)
AssignedFields == {"tertiary", "error", "neutral_variant"}
AssignedSources == {ColorSourceNew(30, F32(1, 1)), ColorSourceNew(200, F32(1, 2))}

\* builder.field = Some(source)
SchemeAssign(field, source) ==
    /\ builder # None /\ build = None
    /\ builder' = [builder EXCEPT ![field] = Some(source)]
    /\ probe' = [Assign |-> [field |-> field, source |-> source]]
    /\ UNCHANGED <<build, stylesVars, componentVars, rangeVars>>

NextSupplied ==
    \/ \E primary \in SchemePrimaries : SchemeNew(primary)
    \/ \E secondary \in SchemeProtos : SchemeSecondary(secondary)
    \/ \E neutral \in SchemeProtos : SchemeNeutral(neutral)
    \/ \E field \in AssignedFields, source \in AssignedSources : SchemeAssign(field, source)
    \/ SchemeBuild
    \/ SchemeErrorRetry
    \/ SchemeBuildFinish

SpecSupplied == InitScheme /\ [][NextSupplied]_vars

(***************************************************************************)
(* Properties of the Styles handles, checked under SpecStyles.             *)
(***************************************************************************)
IsWrite(o) == Tag(o) \in {"insert_named", "insert", "with"}

C4_AppendMerges ==
    [][Tag(op') = "append" =>
          LET a == View(op'.append.handle)
              b == View(op'.append.other)
              after == heap'[arc'[op'.append.handle]]
          IN  /\ Keys(after) = Keys(a) \cup Keys(b)
              /\ \A n \in Keys(b) : StylesGetNamed(after, n) = b[n]
              /\ \A n \in Keys(a) \ Keys(b) : StylesGetNamed(after, n) = a[n]]_vars

\* An append has replaced a value of a by a different value of b.
C4_Witness == Tag(op) = "append" /\ op.append.overwrote

\* C5: insert and insert_named overwrite unconditionally: afterwards the name
\* has the inserted value, and no other name has changed.
C5_InsertOverwrites ==
    [][IsWrite(op') =>
          LET w == Payload(op')
              before == View(w.handle)
              after == heap'[arc'[w.handle]]
          IN  /\ StylesGetNamed(after, w.name) = Some(IntoComponentValue(w.component))
              /\ \A m \in ComponentNames \ {w.name} : after[m] = before[m]]_vars

\* An insert has replaced the value of a name while another name was present.
C5_Witness ==
    /\ Tag(op) \in {"insert_named", "insert"}
    /\ Payload(op).replaced
    /\ Keys(View(Payload(op).handle)) = ComponentNames

(***************************************************************************)
(* Properties of Styles::get, checked under SpecGet.                       *)
(***************************************************************************)
\* The entry the last get looked up, and its projection to the definition's type.
GetEntry == StylesGetNamed(View(op.get.handle), NameOf(op.get.definition))
GetProjection == TryFromComponent(op.get.definition.T, ValueGet(GetEntry.Some, cells))

\* C2: on a hit (the name is present and the stored component converts), get
\* returns the converted stored value and asks for exactly one subscription on
\* the stored value: invalidate_when_changed if the converted value requires
\* invalidation, redraw_when_changed otherwise.
C2_GetHit ==
    (Tag(op) = "get" /\ GetEntry # None /\ IsOk(GetProjection)) =>
        /\ op.get.ret = GetProjection.Ok
        /\ Len(op.get.calls) = 1
        /\ op.get.calls[1] =
              IF RequiresInvalidation(op.get.ret)
              THEN [invalidate_when_changed |-> GetEntry.Some]
              ELSE [redraw_when_changed |-> GetEntry.Some]

\* A get has hit a Dynamic value that requires invalidation.
C2_Witness ==
    /\ Tag(op) = "get"
    /\ op.get.ret = [Px |-> 0]
    /\ op.get.calls = <<[invalidate_when_changed |-> Dynamic("accent")]>>

\* C3: on a miss (the name is absent, as in an empty registry) or a type
\* mismatch, get returns the definition's default for the context and asks
\* for no subscription.
C3_GetMissOrMismatch ==
    (Tag(op) = "get" /\ (GetEntry = None \/ IsErr(GetProjection))) =>
        /\ op.get.ret = DefaultValue(op.get.definition, op.get.context)
        /\ op.get.calls = <<>>

\* A get has found a value of another type and answered with the default.
C3_Witness ==
    /\ Tag(op) = "get"
    /\ GetEntry # None
    /\ IsErr(GetProjection)
    /\ op.get.ret = DefaultValue(op.get.definition, op.get.context)
    /\ op.get.calls = <<>>

(***************************************************************************)
(* Properties of the conversions, checked under SpecComponent.             *)
(***************************************************************************)
\* The built-in kinds of the round trip, by the Rust type converted.
RoundTripKinds ==
    {"Color", "Dimension", "Px", "Lp", "DimensionRange", "VisualOrder",
     "FocusableWidgets", "ContainerLevel", "FamilyOwned", "Weight", "Style"}

IsTryFrom == DOMAIN out = {"TryFrom"}
IsDowncast == DOMAIN out = {"Downcast"}
IsRequires == DOMAIN out = {"Requires"}

\* C6: for every built-in kind T and every value v of T,
\* T::try_from(Component::from(v)) == Ok(v).
C6_RoundTrip ==
    (/\ tval # None
     /\ comp # None
     /\ Tag(tval) \in RoundTripKinds
     /\ IsTryFrom
     /\ out.TryFrom.T = Tag(tval))
        => out.TryFrom.res = Ok(tval)

\* The zero Dimension and an Lp value have made the round trip.
C6_Witness ==
    /\ IsTryFrom
    /\ comp # None
    /\ \/ tval = [Dimension |-> DimensionZERO] /\ out.TryFrom = [T |-> "Dimension", res |-> Ok(tval)]
       \/ tval = [Lp |-> 1] /\ out.TryFrom = [T |-> "Lp", res |-> Ok(tval)]

\* The Component variant a type T projects from; for Px and Lp the Dimension
\* sub-variant and for the custom types the payload type must match as well.
VariantFor(T) ==
    CASE T = "FamilyOwned" -> "FontFamily"
      [] T = "Weight" -> "FontWeight"
      [] T = "Style" -> "FontStyle"
      [] T \in {"Px", "Lp"} -> "Dimension"
      [] T \in {"CornerRadiiDimension", "FontFamilyList", "CustomComponent"} -> "Custom"
      [] OTHER -> T
Mismatch(T, c) ==
    \/ Variant(c) # VariantFor(T)
    \/ T \in {"Px", "Lp", "CornerRadiiDimension", "FontFamilyList"} /\ Tag(Inner(c)) # T

\* C7: a projection to a type T that does not match the Component fails, and
\* every failed projection returns the original Component unchanged.
C7_FailedProjectionKeepsComponent ==
    (comp # None /\ IsTryFrom) =>
        /\ Mismatch(out.TryFrom.T, comp) => IsErr(out.TryFrom.res)
        /\ IsErr(out.TryFrom.res) => out.TryFrom.res.Err = comp

\* A stored Dimension::Lp was requested as Px, and a custom payload of
\* another type as a FontFamilyList.
C7_Witness ==
    /\ IsTryFrom
    /\ \/ /\ comp = ComponentOf("Dimension", [Lp |-> 1])
          /\ out.TryFrom = [T |-> "Px", res |-> Err(comp)]
       \/ /\ comp = ComponentOf("Custom", [UserRelayout |-> TRUE])
          /\ out.TryFrom = [T |-> "FontFamilyList", res |-> Err(comp)]

\* C8: requires_invalidation() is false for Color and FocusableWidgets, true
\* for Dimension, Px, Lp, DimensionRange, FontFamily, FontWeight, FontStyle,
\* VisualOrder and ContainerLevel, and a CustomComponent answers what the
\* payload it was built from answers.
C8_InvalidationPolicy ==
    IsRequires =>
        /\ (out.Requires.of = "value" /\ Tag(tval) \in {"Color", "FocusableWidgets"})
              => out.Requires.res = FALSE
        /\ (out.Requires.of = "value"
              /\ Tag(tval) \in {"Dimension", "Px", "Lp", "DimensionRange", "FamilyOwned",
                                "Weight", "Style", "VisualOrder", "ContainerLevel"})
              => out.Requires.res = TRUE
        /\ (out.Requires.of = "custom" /\ tval \in CustomPayloads)
              => out.Requires.res =
                    CASE Tag(tval) = "UserRelayout" -> tval.UserRelayout
                      [] Tag(tval) = "UserRedraw" -> FALSE
                      [] OTHER -> TRUE

\* A Color, and a CustomComponent whose payload asks for no relayout, have
\* been classified.
C8_Witness ==
    /\ IsRequires
    /\ \/ out.Requires = [of |-> "value", res |-> FALSE] /\ Tag(tval) = "Color"
       \/ /\ out.Requires = [of |-> "custom", res |-> FALSE]
          /\ tval = [UserRelayout |-> FALSE]
          /\ comp = ComponentOf("Custom", tval)

\* C9: downcast::<T>() is Some(the original payload) iff T is the concrete
\* type the CustomComponent was built from, None for every other T, and a
\* clone of the CustomComponent answers the same.
C9_DowncastExactType ==
    (IsDowncast /\ tval \in CustomPayloads /\ comp # None) =>
        /\ out.Downcast.T = Tag(tval) => out.Downcast.res = Some(tval)
        /\ out.Downcast.T # Tag(tval) => out.Downcast.res = None
        /\ out.Downcast.of_clone = out.Downcast.res

\* A downcast to the payload's own type has succeeded.
C9_Witness ==
    /\ IsDowncast
    /\ tval = [UserRedraw |-> 1]
    /\ comp = ComponentOf("Custom", tval)
    /\ out.Downcast = [T |-> "UserRedraw", res |-> Some(tval), of_clone |-> Some(tval)]

(***************************************************************************)
(* Properties of DimensionRange, checked under SpecRange.                  *)
(***************************************************************************)
\* C10: the range built from the single Dimension d by DimensionRange::from(d)
\* reports exact_dimension() == Some(d).
C10_ExactDimensionOfSingle ==
    (/\ range # None
     /\ Tag(range.from) = "Single"
     /\ rout # None
     /\ Tag(rout) = "ExactDimension")
        => rout.ExactDimension = Some(range.from.Single)

\* The least and greatest unsigned pixel sizes a range admits at a scale: an
\* Excluded bound steps one unit inwards in its own variant, an Unbounded
\* side admits everything up to the sizes at hand.
Collapsed(bound, inwards) ==
    CASE Tag(bound) = "Excluded" -> (Tag(bound.Excluded) :> (Payload(bound.Excluded) + inwards))
      [] Tag(bound) = "Included" -> bound.Included
LowestUPx(r, scale) ==
    IF r.start = Unbounded THEN 0 ELSE IntoUPx(Collapsed(r.start, 1), scale)
HighestUPx(r, scale, size) ==
    IF r.end = Unbounded THEN size ELSE IntoUPx(Collapsed(r.end, 0 - 1), scale)
IsClamp == rout # None /\ Tag(rout) = "Clamp"

\* C11: for every range whose collapsed minimum is at most its collapsed
\* maximum, clamp(v, scale) is min(max(v, minimum), maximum) in unsigned
\* pixels: it lies inside the range and is v when v is inside already; for
\* Px(10)..Px(20) at scale 1, clamp(5) = 10, clamp(25) = 19, clamp(15) = 15.
C11_ClampWithinRange ==
    IsClamp =>
        LET c == rout.Clamp
            lo == LowestUPx(range.value, c.scale)
            hi == HighestUPx(range.value, c.scale, UPxMax(c.size, lo))
        IN  /\ lo <= hi =>
                  /\ c.res = UPxMin(UPxMax(c.size, lo), hi)
                  /\ lo <= c.res /\ c.res <= hi
                  /\ (lo <= c.size /\ c.size <= hi) => c.res = c.size
            /\ (range.from = [Range |-> <<[Px |-> 10], [Px |-> 20]>>] /\ c.scale = 1) =>
                  /\ c.size = 5 => c.res = 10
                  /\ c.size = 25 => c.res = 19
                  /\ c.size = 15 => c.res = 15

\* A size above Px(10)..Px(20) has been clamped to 19.
C11_Witness ==
    /\ IsClamp
    /\ range.from = [Range |-> <<[Px |-> 10], [Px |-> 20]>>]
    /\ rout.Clamp = [size |-> 25, scale |-> 1, res |-> 19]

\* C28: the maximum is applied last: for every range with a bounded end and
\* every input, clamp(v, scale) is at most the collapsed maximum in unsigned
\* pixels, and for Excluded(d)..Included(d) with d >= 0, whose minimum d + 1
\* exceeds its maximum d, clamp returns d for every input.
C28_MaximumAppliedLast ==
    IsClamp =>
        LET c == rout.Clamp
            r == range.value
        IN  /\ r.end # Unbounded => c.res <= HighestUPx(r, c.scale, c.size)
            /\ \A d \in Dimension :
                  (Payload(d) >= 0 /\ r = [start |-> Excluded(d), end |-> Included(d)]) =>
                      c.res = IntoUPx(d, c.scale)

\* A size above both has been clamped by Excluded(Px(1))..Included(Px(1)),
\* whose minimum is 2 pixels and whose maximum is 1, to 1.
C28_Witness ==
    /\ IsClamp
    /\ range.value = [start |-> Excluded([Px |-> 1]), end |-> Included([Px |-> 1])]
    /\ IntoUPx(Minimum(range.value).Some, 1) = 2
    /\ rout.Clamp = [size |-> 5, scale |-> 1, res |-> 1]

(***************************************************************************)
(* Properties of the contrast metrics, checked under SpecColor.            *)
(***************************************************************************)
IsSourceContrast == probe # None /\ Tag(probe) = "SourceContrast"
IsColorContrast == probe # None /\ Tag(probe) = "ColorContrast"
InUnitRange(f) == ~F32Less(f, F32(0, 1)) /\ ~F32Less(F32(1, 1), f)
\* The hues are opposite on the circle.
Opposite(hue_a, hue_b) == Abs(hue_a - hue_b) % 360 = 180

\* C17: ColorSource::contrast_between lies in [0, 1] and is symmetric:
\* contrast_between(a, b) = contrast_between(b, a).
C17_ContrastSymmetricBounded ==
    IsSourceContrast =>
        /\ InUnitRange(probe.SourceContrast.res)
        /\ probe.SourceContrast.res =
              SourceContrastBetween(probe.SourceContrast.other, probe.SourceContrast.self)

\* Two sources of different hue and saturation have been compared.
C17_Witness ==
    /\ IsSourceContrast
    /\ probe.SourceContrast.self = ColorSourceNew(5, F32(0, 1))
    /\ probe.SourceContrast.other = ColorSourceNew(355, F32(1, 2))
    /\ probe.SourceContrast.res = F32(1, 36)

\* C18: two sources of opposite hue, one fully desaturated and the other
\* fully saturated, have perfect contrast: contrast_between is 1.0.
C18_PerfectContrast ==
    (/\ IsSourceContrast
     /\ Opposite(probe.SourceContrast.self.hue, probe.SourceContrast.other.hue)
     /\ {probe.SourceContrast.self.saturation, probe.SourceContrast.other.saturation}
            = {F32(0, 1), F32(1, 1)})
        => probe.SourceContrast.res = F32(1, 1)

\* C19: the hue term is the shortest arc between the hues divided by 180:
\* min(|h1 - h2| mod 360, 360 - |h1 - h2| mod 360) / 180, never above 1;
\* hues 5 and 355 are 10 degrees apart, 0 and 359 one degree.
C19_HueTermShortestArc ==
    IsSourceContrast =>
        LET h1 == probe.SourceContrast.self.hue
            h2 == probe.SourceContrast.other.hue
            arc_between == Abs(h1 - h2) % 360
            shortest == IF arc_between <= 360 - arc_between
                        THEN arc_between ELSE 360 - arc_between
        IN  /\ probe.SourceContrast.hue_delta = F32(shortest, 180)
            /\ ~F32Less(F32(1, 1), probe.SourceContrast.hue_delta)
            /\ {h1, h2} = {5, 355} => probe.SourceContrast.hue_delta = F32(10, 180)
            /\ {h1, h2} = {0, 359} => probe.SourceContrast.hue_delta = F32(1, 180)

\* The hues 355 and 5 have been compared across the wraparound.
C19_Witness ==
    /\ IsSourceContrast
    /\ probe.SourceContrast.self.hue = 355
    /\ probe.SourceContrast.other.hue = 5
    /\ probe.SourceContrast.hue_delta = F32(1, 18)

\* C20: ColorExt::contrast_between is in [0, 1], and is 1.0 when the hues are
\* 180 degrees apart and the saturations, the lightnesses and the alphas
\* each differ by 1.0.
C20_ColorContrastReachesOne ==
    IsColorContrast =>
        LET c == probe.ColorContrast
            self == IntoSourceAndLightness(c.self)
        IN  /\ InUnitRange(c.res)
            /\ (/\ Opposite(self.source.hue, c.check_source.hue)
                /\ DifferenceBetween(self.source.saturation, c.check_source.saturation) = F32(1, 1)
                /\ DifferenceBetween(self.lightness, c.check_lightness) = F32(1, 1)
                /\ DifferenceBetween(c.self.alpha, c.check_alpha) = F32(1, 1))
                   => c.res = F32(1, 1)

(***************************************************************************)
(* Properties of ColorSchemeBuilder, checked under SpecFromPrimary and     *)
(* SpecScheme.                                                             *)
(***************************************************************************)
IsColorSource(c) == DOMAIN c = {"hue", "saturation"} /\ InUnitRange(c.saturation)
GoodContrast(a, b) == ~F32Less(SourceContrastBetween(a, b), F32(1, 10))
Populated(scheme) ==
    /\ DOMAIN scheme =
          {"primary", "secondary", "tertiary", "error", "neutral", "neutral_variant"}
    /\ \A field \in DOMAIN scheme : IsColorSource(scheme[field])

\* C12: ColorSchemeBuilder::new(primary).build(), with the default hue shift
\* and no other field set, terminates for every primary hue and saturation,
\* and returns a scheme with all six sources populated whose error source
\* has a contrast of at least 0.10 with primary, secondary and tertiary.
C12_FromPrimaryCompletes ==
    /\ [](IsDone =>
            /\ Populated(build.Done)
            /\ GoodContrast(build.Done.error, build.Done.primary)
            /\ GoodContrast(build.Done.error, build.Done.secondary)
            /\ GoodContrast(build.Done.error, build.Done.tertiary))
    /\ [](builder # None => <>IsDone)

\* A build has finished after rejecting error candidates.
C12_Witness ==
    /\ IsDone
    /\ builder.primary = ColorSourceNew(60, F32(1, 1))
    /\ IntoPositiveDegrees(build.Done.error.hue) # 30
    /\ GoodContrast(build.Done.error, build.Done.tertiary)

\* C13: build() terminates for every builder in which error is unset: the
\* retry loop of generate_error exits.  The loop is deterministic in its
\* candidate, so it exits exactly if no rejected candidate comes up again.
C13_RetryLoopExits ==
    (IsGenerating /\ builder.error = None) =>
        build.GenerateError.error \notin build.GenerateError.rejected

\* The signed offset of a hue from the primary's, in (-180, 180].
Offset(hue) == IntoDegrees(hue - builder.primary.hue)

\* C14: with tertiary unset and a secondary whose hue differs from the
\* primary's, the generated tertiary has a third of the primary's saturation
\* and the primary's hue shifted by the magnitude of the hue shift away from
\* the secondary: the offsets of tertiary and secondary from primary have
\* opposite signs.
C14_TertiaryOppositeSecondary ==
    (IsDone /\ builder.tertiary = None /\ Offset(build.Done.secondary.hue) # 0) =>
        LET secondary == Offset(build.Done.secondary.hue)
            tertiary == Offset(build.Done.tertiary.hue)
            magnitude == Abs(IntoDegrees(builder.hue_shift))
        IN  /\ build.Done.tertiary.saturation = F32Div(builder.primary.saturation, 3)
            /\ tertiary = IntoDegrees(0 - Signum(secondary) * magnitude)
            /\ (magnitude # 0 /\ magnitude # 180) => secondary * tertiary < 0

\* C15: tertiary(c) sets the builder's tertiary to c, with a third of the
\* primary's saturation when c carries none, and leaves primary, secondary,
\* error, neutral, neutral_variant and hue_shift unchanged.
C15_TertiarySetsTertiary ==
    [][(probe' # None /\ Tag(probe') = "Tertiary" /\ builder # None
            /\ build = None /\ build' = None) =>
          builder' = [builder EXCEPT !.tertiary =
                         Some(IntoSource(probe'.Tertiary,
                                         F32Div(builder.primary.saturation, 3)))]]_vars

\* C16: a primary given as a bare hue gets saturation 0.8 and the hue shift
\* starts at 30 degrees; build() generates an unset secondary as (primary
\* hue + hue shift, half the primary's saturation), an unset neutral as
\* (primary hue, 0.01) and an unset neutral variant as (primary hue, a tenth
\* of the primary's saturation).
C16_GeneratedSeeds ==
    /\ (probe # None /\ Tag(probe) = "New") =>
          /\ builder.hue_shift = 30
          /\ Tag(probe.New) = "Hue" => builder.primary = ColorSourceNew(probe.New.Hue, F32(8, 10))
    /\ IsDone =>
          /\ builder.secondary = None =>
                build.Done.secondary =
                    ColorSourceNew(builder.primary.hue + builder.hue_shift,
                                   F32Div(builder.primary.saturation, 2))
          /\ builder.neutral = None =>
                build.Done.neutral = ColorSourceNew(builder.primary.hue, F32(1, 100))
          /\ builder.neutral_variant = None =>
                build.Done.neutral_variant =
                    ColorSourceNew(builder.primary.hue, F32Div(builder.primary.saturation, 10))

\* A scheme has been built from a saturated primary with a changed hue shift
\* and no secondary, neutral or neutral variant given.
C16_Witness ==
    /\ IsDone
    /\ builder.primary = ColorSourceNew(200, F32(1, 2))
    /\ builder.hue_shift = 45
    /\ builder.secondary = None /\ builder.neutral = None /\ builder.neutral_variant = None
    /\ build.Done.secondary = ColorSourceNew(245, F32(1, 4))
    /\ build.Done.neutral_variant = ColorSourceNew(200, F32(1, 20))

(***************************************************************************)
(* Properties of most_contrasting, the colour round trip and the themes,   *)
(* checked under SpecTheme.                                                *)
(***************************************************************************)
IsMostContrasting == probe # None /\ Tag(probe) = "MostContrasting"
IsRoundTrip == probe # None /\ Tag(probe) = "RoundTrip"
IsFromScheme == probe # None /\ Tag(probe) = "FromScheme"
IsSurfaceTheme == probe # None /\ Tag(probe) = "SurfaceTheme"

\* C21: most_contrasting(self, others) with a non-empty list returns an
\* element of others whose contrast against self is maximal and, among the
\* elements with that contrast, the one of smallest index; with an empty
\* list it panics.
C21_MostContrastingFirstMaximum ==
    IsMostContrasting =>
        LET call == probe.MostContrasting
            others == call.others
            amount(i) == ContrastAgainst(call.self, others[i])
        IN  IF others = <<>>
            THEN Tag(call.res) = "Panic"
            ELSE /\ Tag(call.res) = "Returned"
                 /\ \E i \in 1..Len(others) :
                       /\ call.res.Returned = others[i]
                       /\ \A j \in 1..Len(others) : ~F32Less(amount(i), amount(j))
                       /\ \A j \in 1..(i - 1) : F32Less(amount(j), amount(i))

\* most_contrasting returned the second of three candidates, the third being
\* a different colour of the same contrast and the first one of less.
C21_Witness ==
    /\ IsMostContrasting
    /\ LET call == probe.MostContrasting
       IN  /\ Len(call.others) = 3
           /\ call.res = [Returned |-> call.others[2]]
           /\ call.others[3] # call.others[2]
           /\ ContrastAgainst(call.self, call.others[3])
                = ContrastAgainst(call.self, call.others[2])
           /\ F32Less(ContrastAgainst(call.self, call.others[1]),
                      ContrastAgainst(call.self, call.others[2]))

\* C22: for every source s and lightness l the conversion is one-to-one on,
\* s.color(l) is fully opaque and s.color(l).into_source_and_lightness()
\* is (s, l).
C22_ColorRoundTrip ==
    IsRoundTrip =>
        /\ probe.RoundTrip.color.alpha = F32(1, 1)
        /\ probe.RoundTrip.res.source = probe.RoundTrip.source
        /\ probe.RoundTrip.res.lightness = probe.RoundTrip.lightness

\* The lightness tables of the claims.
LightLevels ==
    [color |-> 40, color_dim |-> 20, color_bright |-> 45,
     on_color |-> 100, container |-> 90, on_container |-> 10]
DarkLevels ==
    [color |-> 80, color_dim |-> 60, color_bright |-> 85,
     on_color |-> 10, container |-> 30, on_container |-> 90]
FixedLevels == [color |-> 90, dim_color |-> 80, on_color |-> 10, on_color_variant |-> 40]
\* theme, a record of colours, is source sampled at the levels of the table
SamplesAt(theme, calls, source, levels) ==
    /\ DOMAIN theme = DOMAIN levels
    /\ \A f \in DOMAIN levels :
          /\ calls[f] = Sample(source, levels[f])
          /\ theme[f] = SourceColor(source, F32(levels[f], 100))

\* C23: ThemePair::from_scheme builds each of the light and dark primary,
\* secondary, tertiary and error ColorThemes from the scheme source of the
\* same name at the lightness levels (40, 20, 45, 100, 90, 10) and
\* (80, 60, 85, 10, 30, 90), and each of the primary, secondary and tertiary
\* FixedThemes from the source of the same name at (90, 80, 10, 40).
C23_ThemeTables ==
    IsFromScheme =>
        LET scheme == probe.FromScheme.scheme
            calls == probe.FromScheme.calls
            res == probe.FromScheme.res
        IN  /\ \A n \in {"primary", "secondary", "tertiary", "error"} :
                  /\ SamplesAt(res.light[n], calls.light[n], scheme[n], LightLevels)
                  /\ SamplesAt(res.dark[n], calls.dark[n], scheme[n], DarkLevels)
            /\ SamplesAt(res.primary_fixed, calls.primary_fixed, scheme.primary, FixedLevels)
            /\ SamplesAt(res.secondary_fixed, calls.secondary_fixed, scheme.secondary,
                         FixedLevels)
            /\ SamplesAt(res.tertiary_fixed, calls.tertiary_fixed, scheme.tertiary, FixedLevels)

\* A ThemePair has been derived from a scheme whose error source is the one
\* of hue 210, and the light error theme's colour is that source at 40.
C23_Witness ==
    /\ IsFromScheme
    /\ probe.FromScheme.scheme.error = ColorSourceNew(210, F32(4, 5))
    /\ probe.FromScheme.scheme.primary = ColorSourceNew(30, F32(4, 5))
    /\ probe.FromScheme.res.light.error.color
         = SourceColor(ColorSourceNew(210, F32(4, 5)), F32(2, 5))
    /\ probe.FromScheme.res.light.error.color # probe.FromScheme.res.light.primary.color

\* The lightness levels a SurfaceTheme constructor sampled its sources at.
SurfaceLevels == {probe.SurfaceTheme.calls[f].lightness : f \in DOMAIN probe.SurfaceTheme.calls}
SurfaceSources == {probe.SurfaceTheme.calls[f].source : f \in DOMAIN probe.SurfaceTheme.calls}

\* C24 as claimed: SurfaceTheme::light_from_sources and dark_from_sources
\* sample the neutral and neutral-variant sources at eleven lightness levels.
C24_ElevenSurfaceLevels ==
    IsSurfaceTheme =>
        /\ SurfaceSources \subseteq {probe.SurfaceTheme.neutral, probe.SurfaceTheme.neutral_variant}
        /\ Cardinality(SurfaceLevels) = 11

\* C24, amended: SurfaceTheme::light_from_sources and dark_from_sources
\* sample the neutral and neutral-variant sources at thirteen lightness
\* levels, one per field of the SurfaceTheme.
C24_ThirteenSurfaceLevels ==
    IsSurfaceTheme =>
        /\ SurfaceSources \subseteq {probe.SurfaceTheme.neutral, probe.SurfaceTheme.neutral_variant}
        /\ Cardinality(DOMAIN probe.SurfaceTheme.res) = 13
        /\ Cardinality(SurfaceLevels) = 13

\* A light SurfaceTheme has been derived from two different sources, its
\* opaque_widget colour being the neutral variant at 75.
C24_Witness ==
    /\ IsSurfaceTheme
    /\ probe.SurfaceTheme.mode = "light"
    /\ probe.SurfaceTheme.neutral # probe.SurfaceTheme.neutral_variant
    /\ probe.SurfaceTheme.res.opaque_widget
         = SourceColor(probe.SurfaceTheme.neutral_variant, F32(3, 4))

(***************************************************************************)
(* Properties of ContainerLevel and VisualOrder, checked under SpecContext.*)
(***************************************************************************)
\* enum ContainerLevel's derived order: Lowest < Low < Mid < High < Highest
LevelRank == [Lowest |-> 1, Low |-> 2, Mid |-> 3, High |-> 4, Highest |-> 5]

\* C25: next(l) is the immediate successor of l on Lowest < Low < Mid < High
\* < Highest, next(Highest) is None, and repeated next from any level reaches
\* None after at most 5 applications without coming to a level twice.
C25_NextIsSuccessor ==
    IsContext =>
        LET passed == probe.Context.passed
            level == probe.Context.level
            \* the levels gone through, the one at hand last
            walk == IF IsSome(level) THEN Append(passed, level.Some) ELSE passed
        IN  /\ \A i \in 1..(Len(walk) - 1) : LevelRank[walk[i + 1]] = LevelRank[walk[i]] + 1
            /\ (level = None /\ passed # <<>>) => passed[Len(passed)] = "Highest"
            /\ Len(passed) >= 5 => level = None
            /\ \A i, j \in 1..Len(walk) : i # j => walk[i] # walk[j]

\* next() has been applied five times from Lowest and has come to None.
C25_Witness ==
    /\ IsContext
    /\ probe.Context.passed = <<"Lowest", "Low", "Mid", "High", "Highest">>
    /\ probe.Context.level = None

\* C30: rev(o) has the opposite horizontal and the opposite vertical
\* direction, rev(rev(o)) is o, and left_to_right().rev() is (RightToLeft,
\* BottomToTop), which is not right_to_left().
C30_RevFlipsBothAxes ==
    IsContext =>
        LET order == probe.Context.order
            reversed == probe.Context.reversed
            n == Len(reversed)
        IN  /\ n >= 1 => /\ order.horizontal # reversed[n].horizontal
                         /\ order.vertical # reversed[n].vertical
            /\ n >= 2 => order = reversed[n - 1]
            /\ reversed = <<VisualOrderLeftToRight>> =>
                  /\ order = [horizontal |-> "RightToLeft", vertical |-> "BottomToTop"]
                  /\ order # VisualOrderRightToLeft

\* left_to_right() has been reversed twice and is left_to_right() again.
C30_Witness ==
    /\ IsContext
    /\ probe.Context.reversed
         = <<VisualOrderLeftToRight, [horizontal |-> "RightToLeft", vertical |-> "BottomToTop"]>>
    /\ probe.Context.order = VisualOrderLeftToRight

(***************************************************************************)
(* Properties of Styles handles consumed by value, checked under SpecIter. *)
(***************************************************************************)
\* C26: iterating a handle by value yields every entry of its map exactly
\* once and leaves what get_named returns through every other handle, a
\* clone sharing its map included, as it was; a.append(b.clone()) leaves
\* what get_named returns through b as it was.
C26_ConsumingLeavesSiblings ==
    [][/\ Tag(op') = "into_iter" =>
             LET h == op'.into_iter.handle
                 yielded == op'.into_iter.yielded
             IN  /\ \A n \in ComponentNames :
                       Cardinality({i \in DOMAIN yielded : yielded[i].name = n})
                           = IF View(h)[n] = None THEN 0 ELSE 1
                 /\ \A i \in DOMAIN yielded : View(h)[yielded[i].name] = Some(yielded[i].value)
                 /\ \A g \in Handles \ {h} :
                       /\ arc'[g] = arc[g]
                       /\ arc[g] # 0 =>
                             \A n \in ComponentNames :
                                 StylesGetNamed(heap'[arc'[g]], n) = StylesGetNamed(View(g), n)
       /\ Tag(op') = "append_clone" =>
             LET b == op'.append_clone.other
             IN  /\ arc'[b] = arc[b]
                 /\ \A n \in ComponentNames :
                       StylesGetNamed(heap'[arc'[b]], n) = StylesGetNamed(View(b), n)]_vars

\* A handle that shared a map of two entries with its clone has been
\* iterated by value, and the clone still has the two entries.
C26_Witness ==
    /\ Tag(op) = "into_iter"
    /\ op.into_iter.shared
    /\ Len(op.into_iter.yielded) = 2
    /\ \E g \in Handles : arc[g] # 0 /\ Cardinality(Keys(View(g))) = 2

(***************************************************************************)
(* Properties of FontFamilyList handles, checked under SpecFonts.          *)
(***************************************************************************)
\* The list seen through handle h of the fonts state f.
ListOf(f, h) == f.heap[f.arc[h]]

\* C27: the process-wide default list stays empty: every
\* FontFamilyList::default() returns the empty list, whatever was pushed on
\* lists returned before or on their clones, and a push through one handle
\* leaves the contents seen through every other handle as they were.
C27_DefaultStaysEmpty ==
    [][(IsFonts /\ probe'.Fonts.last # None) =>
          LET before == probe.Fonts
              after == probe'.Fonts
              h == Payload(after.last)
          IN  /\ after.default # 0 => after.heap[after.default] = <<>>
              /\ Tag(after.last) = "default" => ListOf(after, h) = <<>>
              /\ Tag(after.last) = "push" =>
                    \A g \in Handles \ {h} :
                        /\ after.arc[g] = before.arc[g]
                        /\ before.arc[g] # 0 => ListOf(after, g) = ListOf(before, g)]_vars

\* default() has returned the empty list while a list that came from an
\* earlier default() holds a pushed family.
C27_Witness ==
    /\ IsFonts
    /\ probe.Fonts.last # None
    /\ Tag(probe.Fonts.last) = "default"
    /\ ListOf(probe.Fonts, probe.Fonts.last.default) = <<>>
    /\ \E g \in Handles : probe.Fonts.arc[g] # 0 /\ ListOf(probe.Fonts, g) # <<>>

(***************************************************************************)
(* Properties of build() on caller-supplied fields, checked under          *)
(* SpecSupplied.                                                           *)
(***************************************************************************)
\* C29: build() copies primary and every one of secondary, tertiary, error,
\* neutral and neutral_variant that is Some(x) into the ColorScheme as x,
\* and with an error supplied it returns without the contrast search.
C29_BuildKeepsSupplied ==
    [][/\ (build = None /\ build' # None /\ IsSome(builder.error)) => Tag(build') = "Done"
       /\ (build' # None /\ Tag(build') = "Done") =>
             /\ builder' = builder
             /\ build'.Done.primary = builder.primary
             /\ \A f \in {"secondary", "tertiary", "error", "neutral", "neutral_variant"} :
                   IsSome(builder[f]) => build'.Done[f] = builder[f].Some]_vars

\* A scheme has been built from a builder whose tertiary and error were both
\* supplied, the error being the primary itself, and has them unchanged.
C29_Witness ==
    /\ IsDone
    /\ builder.primary = ColorSourceNew(30, F32(1, 1))
    /\ builder.error = Some(builder.primary)
    /\ IsSome(builder.tertiary)
    /\ IsSome(builder.secondary)
    /\ build.Done.error = builder.primary
    /\ build.Done.tertiary = builder.tertiary.Some

====
